---- MODULE Spec2Model ----
(***************************************************************************)
(* Model of the cache-aside layer of the pet hospital services             *)
(* (cache-service.js): a primary Redis store, an in-process fallback map,  *)
(* the connection flag driven by the client's connect/error events, and    *)
(* the operations get, set, delete, deletePattern, getOrSet and getStats.  *)
(*                                                                         *)
(* Every await on the Redis client or on the producer is a suspension      *)
(* point: the operation is split there, and clock ticks and connect/error  *)
(* notifications interleave with the pieces.                               *)
(***************************************************************************)
EXTENDS Integers, Sequences, FiniteSets, TLC

VARIABLES
    isRedisConnected,   \* this.isRedisConnected
    inMemoryCache,      \* this.inMemoryCache : key -> [data, expiry]
    redisStore,         \* content of the Redis server : key -> [val, exp]
    now,                \* Date.now(), in milliseconds
    call,               \* the operation in flight, or the last one completed
    prev,               \* the operation completed before `call`
    hist,               \* what has been done to the watched key so far
    batch,              \* the calls of a batch of concurrent callers
    table,              \* the DynamoDB table of the hospital service
    requests,           \* the route handlers of the hospital service in flight
    queue,              \* the hospital-processing queue of SQS
    worker              \* the SQSWorker and its processing cycles

\* the state of the hospital service's handlers, of the SQS worker
service == <<table, requests>>

polling == <<queue, worker>>

vars ==
    <<isRedisConnected, inMemoryCache, redisStore, now, call, prev, hist, batch,
      service, polling>>

(***************************************************************************)
(* Bounds of the model.                                                    *)
(***************************************************************************)
MaxSeconds == 3     \* the clock runs from 0 to MaxSeconds seconds
MaxTtl == 2         \* ttlSeconds ranges over 1..MaxTtl

MsPerSecond == 1000 \* Date.now() + (ttlSeconds * 1000)

(***************************************************************************)
(* Keys, patterns and values.                                              *)
(***************************************************************************)
Keys == {"hospitals:list:a", "hospital:a", "search:x"}

Patterns == {"hospitals:list:*", "search:*", "list:*"}

TTLs == 1..MaxTtl

\* CacheService.TTL, in seconds
HOSPITAL_DETAILS == 3600

HOSPITAL_LIST == 900

SEARCH_RESULTS == 300

\* the number of times one hospital is written: its creation and an update
MaxVersion == 2

\* the key of the single-key runs, the one whose history is recorded
OneKey == {"hospitals:list:b"}

\* position of character c in the text s
IndexIn(s, c) == CHOOSE i \in 1..Len(s) : SubSeq(s, i, i) = c

Digits == "0123456789"

UpperCase == "ABCDEFGHIJKLMNOPQRSTUVWXYZ"

LowerCase == "abcdefghijklmnopqrstuvwxyz"

\* the byte of character c in Buffer.from(query), for the letters, the
\* digits and the colon
CharCode(c) ==
    IF \E i \in 1..Len(LowerCase) : SubSeq(LowerCase, i, i) = c
    THEN 96 + IndexIn(LowerCase, c)
    ELSE IF \E i \in 1..Len(UpperCase) : SubSeq(UpperCase, i, i) = c
    THEN 64 + IndexIn(UpperCase, c)
    ELSE IF \E i \in 1..Len(Digits) : SubSeq(Digits, i, i) = c
    THEN 47 + IndexIn(Digits, c)
    ELSE 58

Base64Alphabet == UpperCase \o LowerCase \o Digits \o "+/"

\* the base64 digit of the six-bit number n
Base64Digit(n) == SubSeq(Base64Alphabet, n + 1, n + 1)

RECURSIVE Base64From(_, _)
\* toString('base64') of the bytes of s from position i on: three bytes
\* give four digits, a last group of one or two bytes is padded with '='
Base64From(s, i) ==
    IF i > Len(s) THEN ""
    ELSE LET n == Len(s) - i + 1
             b1 == CharCode(SubSeq(s, i, i))
             b2 == IF n >= 2 THEN CharCode(SubSeq(s, i + 1, i + 1)) ELSE 0
             b3 == IF n >= 3 THEN CharCode(SubSeq(s, i + 2, i + 2)) ELSE 0
             v == b1 * 65536 + b2 * 256 + b3
         IN  Base64Digit(v \div 262144)
                 \o Base64Digit((v \div 4096) % 64)
                 \o (IF n >= 2 THEN Base64Digit((v \div 64) % 64) ELSE "=")
                 \o (IF n >= 3 THEN Base64Digit(v % 64) ELSE "=")
                 \o Base64From(s, i + 3)

\* CacheService.keys
hospital(id) == "hospital:" \o id

hospitalList(filters) == "hospitals:list:" \o filters

searchResults(query) == "search:" \o Base64From(query, 1)

\* the arguments of the key helpers: hospital ids, the filters of the list
\* route (JSON.stringify of the query parameters), search queries
Ids == {"a"}

Filters == {"a", "{\"location\":\"search:x\"}"}

Queries == {"x"}

HospitalKeys == {hospital(id) : id \in Ids}

ListKeys == {hospitalList(filters) : filters \in Filters}

SearchKeys == {searchResults(query) : query \in Queries}

\* the keys built by the key helpers
HelperKeys == HospitalKeys \cup ListKeys \cup SearchKeys

\* the patterns that the hospital service invalidates
HelperPatterns == {"hospitals:list:*", "search:*"}

\* the hospitals of the service runs, in the order of a table scan
HospitalIds == {"a", "b"}

ScanOrder == <<"a", "b">>

\* the name given to each hospital by the body of its POST request
NameOf == [i \in HospitalIds |-> IF i = "a" THEN "Xa" ELSE "b"]

\* the search texts of the requests
SearchTexts == {"x", "X"}

RECURSIVE toLowerCase(_)
\* String.prototype.toLowerCase
toLowerCase(s) ==
    IF s = "" THEN ""
    ELSE LET c == SubSeq(s, 1, 1)
         IN  (IF \E i \in 1..Len(UpperCase) : SubSeq(UpperCase, i, i) = c
              THEN SubSeq(LowerCase, IndexIn(UpperCase, c), IndexIn(UpperCase, c))
              ELSE c)
             \o toLowerCase(SubSeq(s, 2, Len(s)))

\* String.prototype.includes
includes(s, q) ==
    \E i \in 1..(Len(s) - Len(q) + 1) : SubSeq(s, i, i + Len(q) - 1) = q

\* JSON.stringify({ location, services, capacity }) of a request without
\* query parameters: undefined members are left out
NoFilters == "{}"

\* the keys that the routes of the hospital service read and write
ServiceKeys ==
    {hospital(id) : id \in HospitalIds} \cup {hospitalList(NoFilters)}
        \cup {searchResults(toLowerCase(q)) : q \in SearchTexts}

AllKeys == Keys \cup OneKey \cup HelperKeys \cup ServiceKeys

Str(s) == [t |-> "string", s |-> s]

Null == [t |-> "null", s |-> ""]

Thrown == [t |-> "error", s |-> ""]

Data == {Str("v1"), Str("v2")}

\* the value of the three-key runs
OneValue == {Str("v1")}

Chr(s, i) == SubSeq(s, i, i)

Quote == "\""

\* a serialization that writes a string without its quotes
JSONstringifyUnquoted(d) ==
    IF d.t = "null" THEN "null" ELSE d.s

\* JSON.stringify(data)
JSONstringify(d) ==
    IF d.t = "null" THEN "null" ELSE Quote \o d.s \o Quote

\* a parser that takes a payload that is not JSON for a string
JSONparseLenient(text) ==
    IF text = "null" THEN Null
    ELSE IF Len(text) >= 2 /\ Chr(text, 1) = Quote /\ Chr(text, Len(text)) = Quote
         THEN Str(SubSeq(text, 2, Len(text) - 1))
         ELSE Str(text)

\* JSON.parse(value): the value, or Thrown for a payload that is not JSON
JSONparse(text) ==
    IF text = "null" THEN Null
    ELSE IF Len(text) >= 2 /\ Chr(text, 1) = Quote /\ Chr(text, Len(text)) = Quote
         THEN Str(SubSeq(text, 2, Len(text) - 1))
         ELSE Thrown

(***************************************************************************)
(* Pattern matching.                                                       *)
(***************************************************************************)
RECURSIVE ReplaceStars(_, _)
\* pattern.replace(/\*/g, '.*'), from position i on
ReplaceStars(pattern, i) ==
    IF i > Len(pattern) THEN ""
    ELSE (IF Chr(pattern, i) = "*" THEN ".*" ELSE Chr(pattern, i))
         \o ReplaceStars(pattern, i + 1)

\* one regular-expression atom against one character: '.' is any character
AtomMatches(a, c) == a = "." \/ a = c

RECURSIVE RegexHere(_, _, _, _)
\* the regular expression r, from its position j on, matches some prefix of
\* the text s that starts at position i (literals, '.', and a postfix '*')
RegexHere(r, j, s, i) ==
    IF j > Len(r) THEN TRUE
    ELSE IF j < Len(r) /\ Chr(r, j + 1) = "*"
         THEN \E n \in 0..(Len(s) - i + 1) :
                 /\ \A m \in i..(i + n - 1) : AtomMatches(Chr(r, j), Chr(s, m))
                 /\ RegexHere(r, j + 2, s, i + n)
         ELSE /\ i <= Len(s)
              /\ AtomMatches(Chr(r, j), Chr(s, i))
              /\ RegexHere(r, j + 1, s, i + 1)

\* new RegExp(r).test(s): an unanchored search
RegexTest(r, s) == \E i \in 1..(Len(s) + 1) : RegexHere(r, 1, s, i)

\* CacheService.matchPattern(key, pattern)
matchPattern(key, pattern) == RegexTest(ReplaceStars(pattern, 1), key)

RECURSIVE GlobHere(_, _, _, _)
\* the glob p, from position j on, matches exactly the text s from position
\* i to its end; '*' is any sequence, every other character is itself
GlobHere(p, j, s, i) ==
    IF j > Len(p) THEN i > Len(s)
    ELSE IF Chr(p, j) = "*"
         THEN \E n \in 0..(Len(s) - i + 1) : GlobHere(p, j + 1, s, i + n)
         ELSE /\ i <= Len(s)
              /\ Chr(p, j) = Chr(s, i)
              /\ GlobHere(p, j + 1, s, i + 1)

\* the Redis server's KEYS pattern match: the whole key against the glob
GlobMatch(key, pattern) == GlobHere(pattern, 1, key, 1)

\* both matchers, tabulated over the keys and patterns of the model
MemMatches == [k \in AllKeys, p \in Patterns |-> matchPattern(k, p)]

RedisMatches == [k \in AllKeys, p \in Patterns |-> GlobMatch(k, p)]

(***************************************************************************)
(* The fallback map and the Redis store.                                   *)
(***************************************************************************)
Undefined == [t |-> "undefined", s |-> ""]

\* a Redis reply of null
Nil == ""

\* map m without the keys of ks
Without(m, ks) == [k \in DOMAIN m \ ks |-> m[k]]

\* map m with key k bound to entry e
With(m, k, e) == [x \in DOMAIN m \cup {k} |-> IF x = k THEN e ELSE m[x]]

\* the test of line 72 with >= for >
FreshAtExpiry(expiry, t) == expiry >= t

\* the test of line 72 : cached.expiry > Date.now()
Fresh(expiry, t) == expiry > t

\* lines 70-81 of get: the read of the fallback map at time t
MemGet(mem, key, t) ==
    IF key \in DOMAIN mem
    THEN IF Fresh(mem[key].expiry, t)
         THEN [mem |-> mem, res |-> mem[key].data, src |-> "memory", purged |-> FALSE]
         ELSE [mem |-> Without(mem, {key}), res |-> Null, src |-> "none", purged |-> TRUE]
    ELSE [mem |-> mem, res |-> Null, src |-> "none", purged |-> FALSE]

\* a sweep with the test of line 185 turned round: it drops the live entries
cleanupDropsLive(mem, t) ==
    Without(mem, {k \in DOMAIN mem : mem[k].expiry > t})

\* CacheService.cleanupInMemoryCache at time t
cleanupInMemoryCache(mem, t) ==
    Without(mem, {k \in DOMAIN mem : mem[k].expiry <= t})

\* lines 100-105 with the expiry computed in seconds, not milliseconds
MemSetInSeconds(mem, key, data, ttl, t) ==
    cleanupInMemoryCache(With(mem, key, [data |-> data, expiry |-> t + ttl]), t)

\* lines 100-105 of set: the write to the fallback map at time t
MemSet(mem, key, data, ttl, t) ==
    cleanupInMemoryCache(
        With(mem, key, [data |-> data, expiry |-> t + ttl * MsPerSecond]), t)

\* lines 141-145 of deletePattern: the scan of the fallback map
MemDeletePattern(mem, pattern) ==
    Without(mem, {k \in DOMAIN mem : MemMatches[k, pattern]})

\* the Redis server: GET, SETEX, DEL, KEYS; an expired key is not there
RedisGet(store, key, t) ==
    IF key \in DOMAIN store /\ store[key].exp > t THEN store[key].val ELSE Nil

RedisSetEx(store, key, ttl, text, t) ==
    With(store, key, [val |-> text, exp |-> t + ttl * MsPerSecond])

RedisDel(store, ks) == Without(store, ks)

RedisKeys(store, pattern, t) ==
    {k \in DOMAIN store : store[k].exp > t /\ RedisMatches[k, pattern]}

\* the server drops the keys whose time to live has run out
RedisExpire(store, t) == Without(store, {k \in DOMAIN store : store[k].exp <= t})

(***************************************************************************)
(* The record of one operation: its arguments, its position, its result,   *)
(* and what it did (read by the properties below).                         *)
(***************************************************************************)
NoCall ==
    [op |-> "none", pc |-> "done", key |-> "", pattern |-> "", data |-> Null,
     ttl |-> 0, keys |-> {}, res |-> Null, raised |-> FALSE,
     conn |-> FALSE,      \* the flag as read by the operation's first test
     perr |-> FALSE,      \* a call to the Redis client raised
     miss |-> FALSE,      \* the Redis read succeeded and found nothing
     bad |-> FALSE,       \* JSON.parse rejected what the Redis read found
     src |-> "none",      \* where the returned value came from
     purged |-> FALSE,    \* line 76 removed an expired entry
     wrote |-> "none",    \* the backend the value was written to
     wroteAt |-> 0,       \* the time of the cache write
     absent0 |-> FALSE,   \* no backend held a live entry when it began
     fetches |-> <<>>,    \* the outcomes of the producer's invocations
     flipped |-> FALSE,   \* the flag has changed since the operation began
     foreign |-> FALSE,   \* another client has written the key since it began
     size |-> 0,          \* stats.inMemorySize
     pcalls |-> <<>>]     \* the calls made to the Redis client, in order

\* a live entry for k in the Redis store, in the fallback map
RedisLive(k) == k \in DOMAIN redisStore /\ redisStore[k].exp > now

MemLive(k) == k \in DOMAIN inMemoryCache /\ inMemoryCache[k].expiry > now

Begin(op, key) ==
    [NoCall EXCEPT !.op = op, !.key = key,
                   !.absent0 = ~RedisLive(key) /\ ~MemLive(key)]

\* what is kept of the operation completed before the one in flight, when
\* it was on the same key and ran with no Redis error, no change of the flag
\* and no write by another client since it began: the value it stored under
\* its key and until when, or that it was a delete, or that it was a
\* getOrSet whose read found nothing and whose producer returned no value
NoPrev == [op |-> "none", key |-> "", val |-> Null, exp |-> 0, wrote |-> "none"]

Summary(c, key) ==
    IF c.key = key /\ c.wrote # "none" /\ ~c.perr /\ ~c.flipped /\ ~c.foreign
    THEN [op |-> c.op, key |-> c.key, val |-> c.data,
          exp |-> c.wroteAt + c.ttl * MsPerSecond, wrote |-> c.wrote]
    ELSE IF /\ c.key = key /\ c.op = "delete" /\ c.pc = "done"
            /\ ~c.perr /\ ~c.flipped /\ ~c.foreign
    THEN [NoPrev EXCEPT !.op = "delete", !.key = key]
    ELSE IF /\ c.key = key /\ c.op = "getOrSet" /\ c.pc = "done"
            /\ Len(c.fetches) = 1 /\ c.fetches[1] \in {Null, Undefined}
            /\ ~c.perr /\ ~c.flipped /\ ~c.foreign
    THEN [NoPrev EXCEPT !.op = "getOrSetNone", !.key = key]
    ELSE NoPrev

\* the history of the operations on the keys of OneKey: the value of the
\* last write that completed (Null when none has, or when its Redis call
\* raised), whether a delete has completed with no Redis error and no set was
\* issued since, and whether a set was ever made with the flag off; and
\* whether the connect() of the construction was rejected
NoHist ==
    [last |-> Null, deleted |-> FALSE, downSet |-> FALSE, bootFailed |-> FALSE]

\* a set of value d under k is issued; it completes at once on the fallback path
HistSetIssued(k, d, down) ==
    IF k \notin OneKey THEN hist
    ELSE IF down THEN [hist EXCEPT !.last = d, !.deleted = FALSE,
                                   !.downSet = TRUE]
    ELSE [hist EXCEPT !.deleted = FALSE]

\* the Redis write of a set of value d under k has answered
HistSetAnswered(k, d, ok) ==
    IF k \notin OneKey THEN hist
    ELSE [hist EXCEPT !.last = IF ok THEN d ELSE Null]

\* a delete of k has completed; ok is FALSE when its Redis call raised
HistDeleted(k, ok) ==
    IF k \notin OneKey THEN hist ELSE [hist EXCEPT !.deleted = ok]

\* a batch of concurrent callers: the calls not yet made, the value that the
\* set of each key passes, and what the get of each key returned
NoBatch == [pending |-> {}, value |-> <<>>, got |-> <<>>]

(***************************************************************************)
(* The hospital service (server.js): its DynamoDB table and two route      *)
(* handlers in flight, one of a read route and one of a write route.       *)
(***************************************************************************)
\* a hospital that was deleted from the table
Deleted == -1

\* the table before any POST: table[i] is 0 while i has not been created,
\* then the number of times the item was written, then Deleted
NoTable == [i \in HospitalIds |-> 0]

NoRequest ==
    [op |-> "none", pc |-> "done", arg |-> "", key |-> "", ttl |-> 0,
     data |-> Null,       \* what the producer read from the table
     todo |-> <<>>,       \* the cache calls that the handler has yet to make
     keys |-> {},         \* the answer of redisClient.keys
     status |-> 0,        \* res.status(...)
     body |-> Null,       \* res.json(...)
     flipped |-> FALSE,   \* write route: the flag has changed since it began
     perr |-> FALSE,      \* write route: a call to the Redis client raised
     overlap |-> FALSE,   \* another handler was in flight meanwhile
     afterPut |-> FALSE]  \* read route: it began after the 200 of a PUT

NoRequests == [r |-> NoRequest, w |-> NoRequest]

(***************************************************************************)
(* The SQS worker (auth-middleware.js) and the hospital-processing queue.  *)
(***************************************************************************)
Messages == {"m1", "m2", "m3"}

\* message.Body: a text that is not JSON, or the object that JSON.parse
\* gives, with the name and address of its hospitalData or without
NotJSON == [json |-> FALSE, name |-> FALSE, address |-> FALSE]

BodyOf ==
    [m \in Messages |->
        CASE m = "m1" -> [json |-> TRUE, name |-> TRUE, address |-> TRUE]
          [] m = "m2" -> [json |-> TRUE, name |-> FALSE, address |-> TRUE]
          [] m = "m3" -> NotJSON]

\* the queue: the messages that a receiveMessage can return, those that
\* were returned and are hidden until their visibility timeout, and those
\* that were deleted
NoQueue == [visible |-> Messages, taken |-> {}, deleted |-> {}]

MaxCycles == 2      \* calls of processMessages that are followed at once

MaxTimers == 2      \* calls of setInterval in one run

\* one call of processMessages: where it is, the messages it received,
\* the index of the one it is processing, and what it has done so far
NoCycle ==
    [pc |-> "idle", batch |-> <<>>, at |-> 0,
     updated |-> FALSE,   \* updateHospitalStatus has resolved for this message
     log |-> <<>>,        \* the messages processed, each with its outcome
     raised |-> FALSE]    \* processHospitalQueue has thrown

NoWorker ==
    [isRunning |-> FALSE, processingInterval |-> 0, timers |-> {}, made |-> 0,
     cycles |-> [c \in 1..MaxCycles |-> NoCycle]]

Idle == call.pc = "done"

TypeOK ==
    /\ isRedisConnected \in BOOLEAN
    /\ DOMAIN inMemoryCache \subseteq AllKeys
    /\ DOMAIN redisStore \subseteq AllKeys
    /\ now \in 0..(MaxSeconds * MsPerSecond)
    /\ call.op \in {"none", "get", "set", "delete", "deletePattern", "getOrSet",
                   "getStats", "initializeRedis"}
    /\ hist.last \in Data \cup {Null}
    /\ batch.pending \subseteq {"get", "set"} \X Keys

\* line 20 with the flag turned on before any connect notification
InitConnected ==
    /\ isRedisConnected = TRUE
    /\ inMemoryCache = <<>>
    /\ redisStore = <<>>
    /\ now = 0
    /\ call = NoCall
    /\ prev = NoPrev
    /\ hist = NoHist
    /\ batch = NoBatch
    /\ table = NoTable
    /\ requests = NoRequests
    /\ queue = NoQueue
    /\ worker = NoWorker

Init ==
    /\ isRedisConnected = FALSE
    /\ inMemoryCache = <<>>
    /\ redisStore = <<>>
    /\ now = 0
    /\ call = NoCall
    /\ prev = NoPrev
    /\ hist = NoHist
    /\ batch = NoBatch
    /\ table = NoTable
    /\ requests = NoRequests
    /\ queue = NoQueue
    /\ worker = NoWorker

(***************************************************************************)
(* get(key), lines 59-86.                                                  *)
(***************************************************************************)
\* lines 62-81 with a catch that turns to the fallback map when the Redis
\* read raised
GetAnswerFallsBack(ok, key) ==
    LET m == MemGet(inMemoryCache, key, now)
        value == RedisGet(redisStore, key, now)
        parsed == JSONparse(value) IN
    IF ok /\ value # Nil
    THEN [mem |-> inMemoryCache,
          res |-> IF parsed = Thrown THEN Null ELSE parsed,
          src |-> IF parsed = Thrown THEN "none" ELSE "redis",
          purged |-> FALSE, perr |-> FALSE, miss |-> FALSE,
          bad |-> parsed = Thrown]
    ELSE [mem |-> m.mem, res |-> m.res, src |-> m.src,
          purged |-> m.purged, perr |-> ~ok, miss |-> ok, bad |-> FALSE]

\* lines 62-81 once the Redis read has answered: ok is FALSE when the
\* client raised.  Yields the returned value and the new fallback map.
GetAnswer(ok, key) ==
    IF ~ok
    THEN [mem |-> inMemoryCache, res |-> Null, src |-> "none",
          purged |-> FALSE, perr |-> TRUE, miss |-> FALSE, bad |-> FALSE]
    ELSE LET value == RedisGet(redisStore, key, now) IN
         IF value # Nil
         THEN LET parsed == JSONparse(value) IN
              [mem |-> inMemoryCache,
               res |-> IF parsed = Thrown THEN Null ELSE parsed,
               src |-> IF parsed = Thrown THEN "none" ELSE "redis",
               purged |-> FALSE, perr |-> FALSE, miss |-> FALSE,
               bad |-> parsed = Thrown]
         ELSE LET m == MemGet(inMemoryCache, key, now) IN
              [mem |-> m.mem, res |-> m.res, src |-> m.src,
               purged |-> m.purged, perr |-> FALSE, miss |-> TRUE,
               bad |-> FALSE]

\* lines 69-81 when the flag is off: the fallback map alone
GetFallback(key) ==
    LET m == MemGet(inMemoryCache, key, now) IN
    [mem |-> m.mem, res |-> m.res, src |-> m.src,
     purged |-> m.purged, perr |-> FALSE, miss |-> FALSE, bad |-> FALSE]

\* the operation record after the read of get
AfterRead(c, a) ==
    [c EXCEPT !.res = a.res, !.src = a.src, !.purged = a.purged,
              !.perr = a.perr, !.miss = a.miss, !.bad = a.bad]

\* get(k) up to its return or its first await
GetCall(k) ==
    /\ Idle
    /\ prev' = Summary(call, k)
    /\ IF isRedisConnected
       THEN /\ call' = [Begin("get", k) EXCEPT !.conn = TRUE, !.pc = "get_wait",
                                            !.pcalls = <<"get">>]
            /\ UNCHANGED inMemoryCache
       ELSE LET a == GetFallback(k) IN
            /\ call' = AfterRead(Begin("get", k), a)
            /\ inMemoryCache' = a.mem
    /\ UNCHANGED <<isRedisConnected, redisStore, now, hist>>

GetStart(k) == GetCall(k) /\ UNCHANGED <<batch, service, polling>>

\* lines 62-84 with a catch that reads Redis a second time
GetResumeRetries(ok) ==
    /\ call.op = "get" /\ call.pc = "get_wait"
    /\ IF ~ok /\ Len(call.pcalls) < 2
       THEN /\ call' = [call EXCEPT !.pcalls = Append(@, "get"), !.perr = TRUE]
            /\ UNCHANGED inMemoryCache
       ELSE LET a == GetAnswer(ok, call.key) IN
            /\ call' = AfterRead([call EXCEPT !.pc = "done"], a)
            /\ inMemoryCache' = a.mem
    /\ UNCHANGED <<isRedisConnected, redisStore, now, prev, hist, batch, service, polling>>

GetResume(ok) ==
    /\ call.op = "get" /\ call.pc = "get_wait"
    /\ LET a == GetAnswer(ok, call.key) IN
       /\ call' = AfterRead([call EXCEPT !.pc = "done"], a)
       /\ inMemoryCache' = a.mem
    /\ UNCHANGED <<isRedisConnected, redisStore, now, prev, hist, batch, service, polling>>

(***************************************************************************)
(* set(key, data, ttlSeconds), lines 91-110.                               *)
(***************************************************************************)
\* set(k, d, ttl) up to its return or its first await
SetCall(k, d, ttl) ==
    /\ Idle
    /\ prev' = Summary(call, k)
    /\ LET c == [Begin("set", k) EXCEPT !.data = d, !.ttl = ttl,
                                        !.conn = isRedisConnected] IN
       IF isRedisConnected
       THEN /\ call' = [c EXCEPT !.pc = "set_wait", !.pcalls = <<"setEx">>]
            /\ UNCHANGED inMemoryCache
       ELSE /\ call' = [c EXCEPT !.wrote = "memory", !.wroteAt = now]
            /\ inMemoryCache' = MemSet(inMemoryCache, k, d, ttl, now)
    /\ hist' = HistSetIssued(k, d, ~isRedisConnected)
    /\ UNCHANGED <<isRedisConnected, redisStore, now>>

SetStart(k, d, ttl) == SetCall(k, d, ttl) /\ UNCHANGED <<batch, service, polling>>

\* line 96 outside the try: an error of the client leaves set as a throw
SetAnswerRaises(ok, c) ==
    IF ok
    THEN /\ redisStore' = RedisSetEx(redisStore, c.key, c.ttl,
                                     JSONstringify(c.data), now)
         /\ call' = [c EXCEPT !.pc = "done", !.wrote = "redis", !.wroteAt = now]
    ELSE /\ redisStore' = redisStore
         /\ call' = [c EXCEPT !.pc = "done", !.perr = TRUE, !.raised = TRUE]

\* line 96 answers: the write is done, or the client raised (line 107)
SetAnswer(ok, c) ==
    IF ok
    THEN /\ redisStore' = RedisSetEx(redisStore, c.key, c.ttl,
                                     JSONstringify(c.data), now)
         /\ call' = [c EXCEPT !.pc = "done", !.wrote = "redis", !.wroteAt = now]
    ELSE /\ redisStore' = redisStore
         /\ call' = [c EXCEPT !.pc = "done", !.perr = TRUE]

\* lines 107-109 with a catch that also marks the connection as lost
SetResumeMarksDown(ok) ==
    /\ call.op = "set" /\ call.pc = "set_wait"
    /\ SetAnswer(ok, call)
    /\ isRedisConnected' = (ok /\ isRedisConnected)
    /\ hist' = HistSetAnswered(call.key, call.data, ok)
    /\ UNCHANGED <<inMemoryCache, now, prev, batch, service, polling>>

\* lines 95-106 with a write that goes to the fallback map as well
SetResumeWritesBoth(ok) ==
    /\ call.op = "set" /\ call.pc = "set_wait"
    /\ SetAnswer(ok, call)
    /\ inMemoryCache' = MemSet(inMemoryCache, call.key, call.data, call.ttl, now)
    /\ hist' = HistSetAnswered(call.key, call.data, ok)
    /\ UNCHANGED <<isRedisConnected, now, prev, batch, service, polling>>

SetResume(ok) ==
    /\ call.op = "set" /\ call.pc = "set_wait"
    /\ SetAnswer(ok, call)
    /\ hist' = HistSetAnswered(call.key, call.data, ok)
    /\ UNCHANGED <<isRedisConnected, inMemoryCache, now, prev, batch, service, polling>>

(***************************************************************************)
(* delete(key), lines 115-125.                                             *)
(***************************************************************************)
DeleteStart(k) ==
    /\ Idle
    /\ prev' = Summary(call, k)
    /\ LET c == [Begin("delete", k) EXCEPT !.conn = isRedisConnected] IN
       IF isRedisConnected
       THEN /\ call' = [c EXCEPT !.pc = "del_wait", !.pcalls = <<"del">>]
            /\ UNCHANGED <<inMemoryCache, hist>>
       ELSE /\ call' = c
            /\ inMemoryCache' = Without(inMemoryCache, {k})
            /\ hist' = HistDeleted(k, TRUE)
    /\ UNCHANGED <<isRedisConnected, redisStore, now, batch, service, polling>>

\* lines 118-120 with a clear() of the fallback map for its delete(key)
DeleteAnswerClears(ok, key) ==
    IF ok
    THEN [store |-> RedisDel(redisStore, {key}), mem |-> <<>>, perr |-> FALSE]
    ELSE [store |-> redisStore, mem |-> inMemoryCache, perr |-> TRUE]

\* line 118 answers: line 120 runs, or the client raised (line 122)
DeleteAnswer(ok, key) ==
    IF ok
    THEN [store |-> RedisDel(redisStore, {key}),
          mem |-> Without(inMemoryCache, {key}), perr |-> FALSE]
    ELSE [store |-> redisStore, mem |-> inMemoryCache, perr |-> TRUE]

DeleteResume(ok) ==
    /\ call.op = "delete" /\ call.pc = "del_wait"
    /\ LET a == DeleteAnswer(ok, call.key) IN
       /\ redisStore' = a.store
       /\ inMemoryCache' = a.mem
       /\ call' = [call EXCEPT !.pc = "done", !.perr = a.perr]
    /\ hist' = HistDeleted(call.key, ok)
    /\ UNCHANGED <<isRedisConnected, now, prev, batch, service, polling>>

(***************************************************************************)
(* deletePattern(pattern), lines 130-149.                                  *)
(***************************************************************************)
DeletePatternStart(p) ==
    /\ Idle
    /\ prev' = NoPrev
    /\ LET c == [Begin("deletePattern", "") EXCEPT !.pattern = p,
                                                   !.conn = isRedisConnected] IN
       IF isRedisConnected
       THEN /\ call' = [c EXCEPT !.pc = "keys_wait", !.pcalls = <<"keys">>]
            /\ UNCHANGED inMemoryCache
       ELSE /\ call' = c
            /\ inMemoryCache' = MemDeletePattern(inMemoryCache, p)
    /\ UNCHANGED <<isRedisConnected, redisStore, now, hist, batch, service, polling>>

\* line 133 answers: with no key the scan of lines 141-145 runs at once,
\* else line 135 is awaited; or the client raised (line 146)
KeysResume(ok) ==
    /\ call.op = "deletePattern" /\ call.pc = "keys_wait"
    /\ IF ok
       THEN LET keys == RedisKeys(redisStore, call.pattern, now) IN
            IF keys # {}
            THEN /\ call' = [call EXCEPT !.pc = "delmany_wait", !.keys = keys,
                                         !.pcalls = Append(@, "del")]
                 /\ UNCHANGED inMemoryCache
            ELSE /\ call' = [call EXCEPT !.pc = "done"]
                 /\ inMemoryCache' = MemDeletePattern(inMemoryCache, call.pattern)
       ELSE /\ call' = [call EXCEPT !.pc = "done", !.perr = TRUE]
            /\ UNCHANGED inMemoryCache
    /\ UNCHANGED <<isRedisConnected, redisStore, now, prev, hist, batch, service, polling>>

\* line 135 answers: the scan runs, or the client raised (line 146)
DelManyResume(ok) ==
    /\ call.op = "deletePattern" /\ call.pc = "delmany_wait"
    /\ IF ok
       THEN /\ redisStore' = RedisDel(redisStore, call.keys)
            /\ inMemoryCache' = MemDeletePattern(inMemoryCache, call.pattern)
            /\ call' = [call EXCEPT !.pc = "done"]
       ELSE /\ call' = [call EXCEPT !.pc = "done", !.perr = TRUE]
            /\ UNCHANGED <<redisStore, inMemoryCache>>
    /\ UNCHANGED <<isRedisConnected, now, prev, hist, batch, service, polling>>

(***************************************************************************)
(* getOrSet(key, fetchFunction, ttlSeconds), lines 154-177.                *)
(***************************************************************************)
\* line 159 : data !== null
IsHit(data) == data # Null

\* line 167 with the test data !== undefined alone
CacheableNull(data) == data # Undefined

\* line 167 : data !== null && data !== undefined
Cacheable(data) == data # Null /\ data # Undefined

\* lines 159-161 with a test that a miss passes too (data !== undefined)
AfterGetAlwaysReturns(c) == [c EXCEPT !.pc = "done"]

\* lines 159-165 after the read of get: a hit returns, a miss calls the producer
AfterGet(c) ==
    IF IsHit(c.res) THEN [c EXCEPT !.pc = "done"]
    ELSE [c EXCEPT !.pc = "fetch_wait"]

GetOrSetStart(k, ttl) ==
    /\ Idle
    /\ prev' = Summary(call, k)
    /\ LET c == [Begin("getOrSet", k) EXCEPT !.ttl = ttl] IN
       IF isRedisConnected
       THEN /\ call' = [c EXCEPT !.conn = TRUE, !.pc = "get_wait",
                                 !.pcalls = <<"get">>]
            /\ UNCHANGED inMemoryCache
       ELSE LET a == GetFallback(k) IN
            /\ call' = AfterGet(AfterRead(c, a))
            /\ inMemoryCache' = a.mem
    /\ UNCHANGED <<isRedisConnected, redisStore, now, hist, batch, service, polling>>

GetOrSetGetResume(ok) ==
    /\ call.op = "getOrSet" /\ call.pc = "get_wait"
    /\ LET a == GetAnswer(ok, call.key) IN
       /\ call' = AfterGet(AfterRead(call, a))
       /\ inMemoryCache' = a.mem
    /\ UNCHANGED <<isRedisConnected, redisStore, now, prev, hist, batch, service, polling>>

\* line 165 answers with out: a throw goes to line 172, a value to be cached
\* goes through set (line 168), anything else is returned as it is
GetOrSetFetchResume(out) ==
    /\ call.op = "getOrSet" /\ call.pc = "fetch_wait"
    /\ LET c == [call EXCEPT !.fetches = Append(@, out)] IN
       IF out = Thrown
       THEN /\ call' = [c EXCEPT !.pc = "refetch_wait"]
            /\ UNCHANGED <<inMemoryCache, hist>>
       ELSE IF ~Cacheable(out)
       THEN /\ call' = [c EXCEPT !.pc = "done", !.res = out, !.src = "fetch"]
            /\ UNCHANGED <<inMemoryCache, hist>>
       ELSE IF isRedisConnected
       THEN /\ call' = [c EXCEPT !.pc = "set_wait", !.data = out,
                                 !.pcalls = Append(@, "setEx")]
            /\ hist' = HistSetIssued(c.key, out, FALSE)
            /\ UNCHANGED inMemoryCache
       ELSE /\ call' = [c EXCEPT !.pc = "done", !.data = out, !.res = out,
                                 !.src = "fetch", !.wrote = "memory",
                                 !.wroteAt = now]
            /\ inMemoryCache' = MemSet(inMemoryCache, c.key, out, c.ttl, now)
            /\ hist' = HistSetIssued(c.key, out, TRUE)
    /\ UNCHANGED <<isRedisConnected, redisStore, now, prev, batch, service, polling>>

GetOrSetSetResume(ok) ==
    /\ call.op = "getOrSet" /\ call.pc = "set_wait"
    /\ SetAnswer(ok, [call EXCEPT !.res = call.data, !.src = "fetch"])
    /\ hist' = HistSetAnswered(call.key, call.data, ok)
    /\ UNCHANGED <<isRedisConnected, inMemoryCache, now, prev, batch, service, polling>>

\* line 175 answers with out: a throw leaves getOrSet, a value is returned
GetOrSetRefetchResume(out) ==
    /\ call.op = "getOrSet" /\ call.pc = "refetch_wait"
    /\ LET c == [call EXCEPT !.fetches = Append(@, out), !.pc = "done"] IN
       call' = IF out = Thrown THEN [c EXCEPT !.raised = TRUE]
               ELSE [c EXCEPT !.res = out, !.src = "refetch"]
    /\ UNCHANGED <<isRedisConnected, inMemoryCache, redisStore, now, prev, hist, batch, service, polling>>

(***************************************************************************)
(* getStats(), lines 202-219.                                              *)
(***************************************************************************)
\* the object returned by getStats: the two fields of lines 204-207, with
\* redisMemory when line 211 ran; or the { error } object of line 217
Stats(withMemory) ==
    [t |-> "stats", s |-> IF withMemory THEN "redisMemory" ELSE ""]

ErrorObject == [t |-> "errorObject", s |-> ""]

GetStatsStart ==
    /\ Idle
    /\ prev' = NoPrev
    /\ LET c == [Begin("getStats", "") EXCEPT
                   !.conn = isRedisConnected,
                   !.size = Cardinality(DOMAIN inMemoryCache)] IN
       call' = IF isRedisConnected
               THEN [c EXCEPT !.pc = "info_wait", !.pcalls = <<"info">>]
               ELSE [c EXCEPT !.res = Stats(FALSE)]
    /\ UNCHANGED <<isRedisConnected, inMemoryCache, redisStore, now, hist, batch, service, polling>>

\* line 210 answers: the stats with the server's reply, or the client raised
GetStatsResume(ok) ==
    /\ call.op = "getStats" /\ call.pc = "info_wait"
    /\ call' = IF ok THEN [call EXCEPT !.pc = "done", !.res = Stats(TRUE)]
               ELSE [call EXCEPT !.pc = "done", !.res = ErrorObject,
                                 !.perr = TRUE]
    /\ UNCHANGED <<isRedisConnected, inMemoryCache, redisStore, now, prev, hist, batch, service, polling>>

(***************************************************************************)
(* The Redis client's events (lines 39-47), the clock, and the other       *)
(* clients of the Redis server.                                            *)
(***************************************************************************)
\* the 'connect' event of the client (lines 39-42)
Connect ==
    /\ isRedisConnected' = TRUE
    /\ call' = [call EXCEPT !.flipped = @ \/ ~isRedisConnected]
    /\ UNCHANGED <<inMemoryCache, redisStore, now, prev, hist, batch, service, polling>>

\* an error signalled by the client: its 'error' event (lines 44-47), or
\* the rejection of the connect() awaited at line 49 (lines 50-53)
Error ==
    /\ isRedisConnected' = FALSE
    /\ call' = [call EXCEPT !.flipped = @ \/ isRedisConnected]
    /\ UNCHANGED <<inMemoryCache, redisStore, now, prev, hist, batch, service, polling>>

Tick ==
    /\ now < MaxSeconds * MsPerSecond
    /\ now' = now + MsPerSecond
    /\ redisStore' = RedisExpire(redisStore, now')
    /\ UNCHANGED <<isRedisConnected, inMemoryCache, call, prev, hist, batch, service, polling>>

\* a payload that JSON.parse rejects
Malformed == "{oops"

\* another client of the Redis server stores under k a payload that is not
\* JSON, for one second; at most once while an operation is in flight or
\* was the last to complete
ForeignSet(k) ==
    /\ ~call.foreign
    /\ redisStore' = RedisSetEx(redisStore, k, 1, Malformed, now)
    /\ call' = [call EXCEPT !.foreign = TRUE]
    /\ UNCHANGED <<isRedisConnected, inMemoryCache, now, prev, hist, batch, service, polling>>

\* the steps over the keys K, values D, times to live T and patterns P
NextOver(K, D, T, P) ==
    \/ \E k \in K : GetStart(k)
    \/ \E ok \in BOOLEAN : GetResume(ok)
    \/ \E k \in K, d \in D, ttl \in T : SetStart(k, d, ttl)
    \/ \E ok \in BOOLEAN : SetResume(ok)
    \/ \E k \in K : DeleteStart(k)
    \/ \E ok \in BOOLEAN : DeleteResume(ok)
    \/ \E p \in P : DeletePatternStart(p)
    \/ \E ok \in BOOLEAN : KeysResume(ok)
    \/ \E ok \in BOOLEAN : DelManyResume(ok)
    \/ \E k \in K, ttl \in T : GetOrSetStart(k, ttl)
    \/ \E ok \in BOOLEAN : GetOrSetGetResume(ok)
    \/ \E out \in D \cup {Null, Undefined, Thrown} : GetOrSetFetchResume(out)
    \/ \E ok \in BOOLEAN : GetOrSetSetResume(ok)
    \/ \E out \in D \cup {Null, Undefined, Thrown} : GetOrSetRefetchResume(out)
    \/ GetStatsStart
    \/ \E ok \in BOOLEAN : GetStatsResume(ok)
    \/ Connect
    \/ Error
    \/ Tick

\* one key, every value and time to live
Next == NextOver(OneKey, Data, TTLs, Patterns)

Spec == Init /\ [][Next]_vars

\* the three keys of the patterns, one value, one time to live
NextKeys == NextOver(Keys, OneValue, {1}, Patterns)

SpecKeys == Init /\ [][NextKeys]_vars

\* one key and one value, with another client writing to the Redis server
NextForeign ==
    \/ NextOver(OneKey, OneValue, TTLs, Patterns)
    \/ \E k \in OneKey : ForeignSet(k)

SpecForeign == Init /\ [][NextForeign]_vars

\* the keys of the key helpers, written by set and removed by deletePattern
NextHelpers ==
    \/ \E k \in HelperKeys, d \in OneValue : SetStart(k, d, 1)
    \/ \E ok \in BOOLEAN : SetResume(ok)
    \/ \E p \in HelperPatterns : DeletePatternStart(p)
    \/ \E ok \in BOOLEAN : KeysResume(ok)
    \/ \E ok \in BOOLEAN : DelManyResume(ok)
    \/ Connect
    \/ Error

SpecHelpers == Init /\ [][NextHelpers]_vars

(***************************************************************************)
(* Construction, lines 17-54: the constructor calls initializeRedis and    *)
(* does not await it; initializeRedis registers the handlers and awaits    *)
(* connect().  The operations of these runs start once connect() has       *)
(* answered; the runs above start after construction, and their Error      *)
(* action stands for the catch of lines 50-53 as well.                     *)
(***************************************************************************)
InitBoot ==
    /\ isRedisConnected = FALSE
    /\ inMemoryCache = <<>>
    /\ redisStore = <<>>
    /\ now = 0
    /\ call = [NoCall EXCEPT !.op = "initializeRedis", !.pc = "connect_wait"]
    /\ prev = NoPrev
    /\ hist = NoHist
    /\ batch = NoBatch
    /\ table = NoTable
    /\ requests = NoRequests
    /\ queue = NoQueue
    /\ worker = NoWorker

\* lines 49-53 without the try: the rejection leaves initializeRedis
ConnectResumeThrows(ok) ==
    /\ call.op = "initializeRedis" /\ call.pc = "connect_wait"
    /\ call' = [call EXCEPT !.pc = "done", !.perr = ~ok, !.raised = ~ok]
    /\ hist' = [hist EXCEPT !.bootFailed = ~ok]
    /\ UNCHANGED <<isRedisConnected, inMemoryCache, redisStore, now, prev, batch, service, polling>>

\* line 49 answers: connect() resolved, or it rejected and the catch of
\* lines 50-53 turns the flag off
ConnectResume(ok) ==
    /\ call.op = "initializeRedis" /\ call.pc = "connect_wait"
    /\ call' = [call EXCEPT !.pc = "done", !.perr = ~ok]
    /\ isRedisConnected' = IF ok THEN isRedisConnected ELSE FALSE
    /\ hist' = [hist EXCEPT !.bootFailed = ~ok]
    /\ UNCHANGED <<inMemoryCache, redisStore, now, prev, batch, service, polling>>

NextBoot ==
    \/ NextOver(OneKey, OneValue, {1}, Patterns)
    \/ \E ok \in BOOLEAN : ConnectResume(ok)

SpecBoot == InitBoot /\ [][NextBoot]_vars

(***************************************************************************)
(* Concurrent callers with the flag off.  With the flag off get and set    *)
(* reach no await (lines 69-80, 98-105), so each call runs from its first  *)
(* line to its return before any other call runs: the interleavings of     *)
(* the batch are the orders in which the calls are made.                   *)
(***************************************************************************)
\* the result of a get that has not been made yet
Pending == [t |-> "pending", s |-> ""]

\* one set and one get for every key, the values of the sets chosen freely
InitBatch ==
    /\ isRedisConnected = FALSE
    /\ inMemoryCache = <<>>
    /\ redisStore = <<>>
    /\ now = 0
    /\ call = NoCall
    /\ prev = NoPrev
    /\ hist = NoHist
    /\ \E value \in [Keys -> Data] :
          batch = [pending |-> {"get", "set"} \X Keys, value |-> value,
                   got |-> [k \in Keys |-> Pending]]
    /\ table = NoTable
    /\ requests = NoRequests
    /\ queue = NoQueue
    /\ worker = NoWorker

BatchSet(k) ==
    /\ <<"set", k>> \in batch.pending
    /\ \E ttl \in TTLs : SetCall(k, batch.value[k], ttl)
    /\ batch' = [batch EXCEPT !.pending = @ \ {<<"set", k>>}]
    /\ UNCHANGED <<service, polling>>

BatchGet(k) ==
    /\ <<"get", k>> \in batch.pending
    /\ GetCall(k)
    /\ batch' = [batch EXCEPT !.pending = @ \ {<<"get", k>>},
                              !.got[k] = call'.res]
    /\ UNCHANGED <<service, polling>>

NextBatch ==
    \/ \E k \in Keys : BatchSet(k)
    \/ \E k \in Keys : BatchGet(k)

SpecBatch == InitBatch /\ [][NextBatch]_vars

(***************************************************************************)
(* Properties.                                                             *)
(***************************************************************************)
Done(op) == call.op = op /\ call.pc = "done"

\* C1: in every reachable state, no key has a live entry in the Redis store
\* and a live entry in the fallback map at the same time.
C1_OneBackendPerKey == \A k \in AllKeys : ~(RedisLive(k) /\ MemLive(k))

\* C2: a get that read the flag as connected and whose Redis read succeeded
\* and found nothing returns absent (it does not turn to the fallback map).
C2_ConnectedMissIsAbsent ==
    (Done("get") /\ call.conn /\ call.miss) => call.res = Null

\* C3: once delete(k) has completed, the fallback map holds no entry for k,
\* whatever the flag was and whether or not the Redis delete raised.
C3_DeleteClearsFallback ==
    Done("delete") => call.key \notin DOMAIN inMemoryCache

\* C4: once deletePattern(p) has completed, the fallback map holds no key
\* that matches p, whatever the flag was and whether or not a Redis call raised.
C4_DeletePatternClearsFallback ==
    Done("deletePattern") =>
        \A k \in DOMAIN inMemoryCache : ~GlobMatch(k, call.pattern)

\* a step that completes a deletePattern in which no Redis call raised
DeletePatternCompletes ==
    /\ call'.op = "deletePattern"
    /\ call'.pc = "done"
    /\ ~call'.perr
    /\ \/ DeletePatternStart(call'.pattern)
       \/ \E ok \in BOOLEAN : KeysResume(ok)
       \/ \E ok \in BOOLEAN : DelManyResume(ok)

\* C5: a deletePattern(p) that completes removes from the fallback map exactly
\* the keys that match p as a whole ('*' any sequence, any other character
\* itself) and leaves every other key with its entry.
C5_DeletePatternExact ==
    [][DeletePatternCompletes =>
          inMemoryCache' =
              Without(inMemoryCache,
                      {k \in DOMAIN inMemoryCache : GlobMatch(k, call'.pattern)})]_vars

\* C6: when the producer fails on the miss, getOrSet ends by raising that
\* failure (it returns no value) and stores nothing under the key.
C6_ProducerFailurePropagates ==
    (Done("getOrSet") /\ call.fetches # <<>> /\ call.fetches[1] = Thrown) =>
        (call.raised /\ call.wrote = "none")

\* the value under k is still stored where the operation c wrote it
StillStored(c) ==
    now < c.wroteAt + c.ttl * MsPerSecond =>
        /\ c.wrote = "memory" =>
              MemLive(c.key) /\ inMemoryCache[c.key].data = c.data
        /\ c.wrote = "redis" =>
              RedisLive(c.key) /\ JSONparse(redisStore[c.key].val) = c.data

\* the producer, if invoked, came back with a value the first time
GaveValue(c) == c.fetches = <<>> \/ c.fetches[1] \in Data

\* the first of two getOrSet calls: the key was absent, the producer gave a
\* value; then the producer was invoked once and its value is stored
FirstGetOrSet(c) ==
    (c.absent0 /\ ~c.flipped /\ ~c.foreign /\ GaveValue(c)) =>
        /\ Len(c.fetches) = 1
        /\ c.res = c.fetches[1]
        /\ c.wrote # "none" /\ c.data = c.fetches[1]
        /\ StillStored(c)

\* the second of two getOrSet calls on one key, before the value stored by
\* the first expires: the stored value is returned, no producer is invoked
SecondGetOrSet(c) ==
    (/\ prev.op = "getOrSet" /\ prev.key = c.key
     /\ ~c.flipped /\ ~c.foreign /\ now < prev.exp) =>
        (c.res = prev.val /\ c.fetches = <<>> /\ ~c.raised)

ReadStep ==
    /\ call'.op \in {"get", "getOrSet"}
    /\ call'.pc # "get_wait"
    /\ \/ ~isRedisConnected /\ GetStart(call'.key)
       \/ \E ok \in BOOLEAN : GetResume(ok)
       \/ ~isRedisConnected /\ GetOrSetStart(call'.key, call'.ttl)
       \/ \E ok \in BOOLEAN : GetOrSetGetResume(ok)

\* what a read step returns from a cache is a live entry of that cache
ReturnsLive ==
    /\ call'.src = "memory" =>
          MemLive(call'.key) /\ call'.res = inMemoryCache[call'.key].data
    /\ call'.src = "redis" =>
          RedisLive(call'.key) /\ call'.res = JSONparse(redisStore[call'.key].val)

NoThrow(c) == \A i \in DOMAIN c.fetches : c.fetches[i] # Thrown

\* C8: a getOrSet whose producer succeeds every time it is invoked does not
\* raise; it returns a live cached value or else what the producer returned,
\* whatever the flag and whichever Redis calls raise.
C8_GetOrSetNeverFails ==
    /\ [](Done("getOrSet") /\ NoThrow(call) =>
            /\ ~call.raised
            /\ IF call.fetches = <<>>
               THEN call.res # Null /\ call.src \in {"redis", "memory"}
               ELSE call.res = call.fetches[Len(call.fetches)]
                    /\ call.src \in {"fetch", "refetch"})
    /\ [][ReadStep => ReturnsLive]_vars

\* a connected getOrSet whose Redis calls raised returned the producer's value
C8_Witness ==
    /\ Done("getOrSet") /\ NoThrow(call) /\ call.conn /\ call.perr
    /\ call.fetches # <<>> /\ call.res \in Data /\ call.wrote = "none"

\* C9: a get of k that follows a set(k, v, ttl) before ttl has run out, with
\* no change of the flag since the set began, no Redis call raising and no
\* other client writing the key, returns v: through Redis when connected,
\* through the map when not.
C9_GetAfterSet ==
    (/\ Done("get") /\ ~call.perr /\ ~call.flipped /\ ~call.foreign
     /\ prev.op = "set" /\ prev.key = call.key /\ now < prev.exp)
        => call.res = prev.val

\* a connected get returned the value that the set before it wrote to Redis
C9_Witness ==
    /\ Done("get") /\ ~call.perr /\ ~call.flipped /\ call.conn
    /\ prev.op = "set" /\ prev.key = call.key /\ now < prev.exp
    /\ prev.wrote = "redis" /\ call.res = Str("v2")

\* a get on the fallback path that finds the entry of its key expired
ExpiredRead ==
    /\ ~isRedisConnected
    /\ call'.key \in DOMAIN inMemoryCache
    /\ inMemoryCache[call'.key].expiry <= now
    /\ GetStart(call'.key)

\* a getOrSet on the fallback path right after a get of the same key that
\* was served by the fallback map and returned absent
GetOrSetAfterAbsent ==
    /\ ~isRedisConnected
    /\ call.op = "get" /\ call.key = call'.key
    /\ ~call.conn /\ ~call.flipped /\ call.res = Null
    /\ GetOrSetStart(call'.key, call'.ttl)

\* C10: get never returns a fallback entry whose expiry is at or before the
\* current time; on the fallback path a get that finds such an entry removes
\* it and returns absent, as it does once the ttl of a set has run out, and a
\* getOrSet that follows invokes its producer.
C10_ExpiryHonoured ==
    [][/\ ReadStep => ReturnsLive
       /\ ExpiredRead =>
             /\ call'.res = Null /\ call'.src = "none"
             /\ call'.key \notin DOMAIN inMemoryCache'
       /\ (/\ ~isRedisConnected
           /\ prev'.op = "set" /\ prev'.wrote = "memory" /\ now >= prev'.exp
           /\ GetStart(call'.key))
             => call'.res = Null
       /\ GetOrSetAfterAbsent => call'.pc = "fetch_wait"]_vars

\* a get on the fallback path, past the ttl of the set before it, purged the
\* entry and returned absent
C10_Witness ==
    /\ Done("get") /\ ~call.conn /\ call.purged /\ call.res = Null
    /\ prev.op = "set" /\ prev.wrote = "memory" /\ now > prev.exp
    /\ call.key \notin DOMAIN inMemoryCache

\* C11: once a set of the watched key has completed with value v2, a later
\* get of that key returns v2 or absent, never the value of an earlier set,
\* whatever connect and error notifications came in between.
C11_LastWriteWins ==
    (Done("get") /\ call.key \in OneKey /\ hist.last # Null) =>
        call.res \in {hist.last, Null}

\* C12: once a delete of the watched key has completed with no Redis error,
\* every later get of that key returns absent until the next set of the key
\* is issued, whatever the flag was when the delete ran and whatever connect
\* and error notifications came before or after it.
C12_DeletedStaysAbsent ==
    (Done("get") /\ call.key \in OneKey /\ hist.deleted) => call.res = Null

\* a step in which the Redis read of a get raises
GetReadRaises ==
    /\ call.op = "get" /\ call.pc = "get_wait"
    /\ call'.perr
    /\ GetResume(FALSE)

\* C13: get never raises; when the flag was on and the Redis read raises, get
\* returns absent and neither reads nor changes the fallback map, even when
\* the map holds an unexpired entry for the key.
C13_GetSwallowsReadError ==
    /\ [](Done("get") => ~call.raised)
    /\ [][GetReadRaises =>
             /\ call'.pc = "done" /\ ~call'.raised
             /\ call'.res = Null /\ call'.src = "none" /\ ~call'.purged
             /\ inMemoryCache' = inMemoryCache]_vars

\* a get whose Redis read raised returned absent over a live fallback entry
C13_Witness ==
    /\ Done("get") /\ call.conn /\ call.perr /\ call.res = Null
    /\ MemLive(call.key)

\* a step in which the Redis read of get, alone or inside getOrSet, succeeds
\* and finds the malformed payload under the key
MalformedRead ==
    /\ call.pc = "get_wait"
    /\ ~call'.perr
    /\ RedisGet(redisStore, call.key, now) = Malformed
    /\ \/ GetResume(TRUE)
       \/ GetOrSetGetResume(TRUE)

\* such a read is a miss: absent, nothing raised, and on to the producer
MalformedIsMiss ==
    MalformedRead =>
        /\ call'.res = Null /\ ~call'.raised /\ call'.bad
        /\ call'.pc = IF call.op = "get" THEN "done" ELSE "fetch_wait"

\* the entry under the key of c is the value that c returned
Overwritten(c) ==
    /\ RedisLive(c.key) => JSONparse(redisStore[c.key].val) = c.res
    /\ c.wrote # "none" /\ StillStored(c)

\* a getOrSet that found the malformed payload, with a producer that gives a
\* value: the producer was invoked once, its value returned and stored
MalformedGetOrSet(c) ==
    (c.bad /\ ~c.foreign /\ GaveValue(c)) =>
        /\ Len(c.fetches) = 1 /\ c.res = c.fetches[1] /\ ~c.raised
        /\ Overwritten(c)

SetWriteRaises ==
    /\ call.op = "set" /\ call.pc = "set_wait"
    /\ call'.perr
    /\ SetResume(FALSE)

\* C15: set never raises; when the flag was on and the Redis write raises,
\* set completes normally, writes nothing (the fallback map and the Redis
\* store are as before) and leaves the flag as it is.
C15_SetSwallowsWriteError ==
    /\ [](Done("set") => ~call.raised)
    /\ [][SetWriteRaises =>
             /\ call'.pc = "done" /\ ~call'.raised /\ call'.wrote = "none"
             /\ inMemoryCache' = inMemoryCache
             /\ redisStore' = redisStore
             /\ isRedisConnected' = isRedisConnected]_vars

\* a set whose Redis write raised has completed: the flag is still on, the
\* fallback map has no entry for the key
C15_Witness ==
    /\ Done("set") /\ call.conn /\ call.perr /\ ~call.raised
    /\ isRedisConnected /\ ~call.flipped
    /\ call.key \notin DOMAIN inMemoryCache

OperationStep ==
    \/ \E k \in AllKeys : GetStart(k) \/ DeleteStart(k)
    \/ \E k \in AllKeys, d \in Data, ttl \in TTLs : SetStart(k, d, ttl)
    \/ \E k \in AllKeys, ttl \in TTLs : GetOrSetStart(k, ttl)
    \/ \E p \in Patterns : DeletePatternStart(p)
    \/ GetStatsStart
    \/ \E ok \in BOOLEAN :
          \/ GetResume(ok) \/ SetResume(ok) \/ DeleteResume(ok)
          \/ KeysResume(ok) \/ DelManyResume(ok)
          \/ GetOrSetGetResume(ok) \/ GetOrSetSetResume(ok)
          \/ GetStatsResume(ok)
    \/ \E out \in Data \cup {Null, Undefined, Thrown} :
          GetOrSetFetchResume(out) \/ GetOrSetRefetchResume(out)

\* the positions in which an operation waits for the Redis client
PrimaryWaits == {"get_wait", "set_wait", "del_wait", "keys_wait", "info_wait"}

\* C17: no step of get, set, delete, deletePattern, getOrSet or getStats
\* changes the flag, whether or not a Redis call in it raises; when an
\* operation in which a Redis call raised has completed with no notification
\* since it began, the flag is still on, and the operation that starts next
\* calls the Redis client again.
C17_OperationsKeepFlag ==
    /\ [][isRedisConnected' # isRedisConnected => ~OperationStep]_vars
    /\ []((Idle /\ call.perr /\ ~call.flipped) => isRedisConnected)
    /\ [][(Idle /\ call.perr /\ ~call.flipped /\ ~call'.perr) =>
             (call'.conn /\ call'.pc \in PrimaryWaits)]_vars

\* a getStats whose Redis call raised returned the error object, and the
\* flag is still on
C17_Witness ==
    /\ Done("getStats") /\ call.perr /\ call.res = ErrorObject
    /\ ~call.flipped /\ isRedisConnected

\* C18: a get of a key with no live entry returns absent; with the flag on,
\* a get that follows a set returns the value from Redis; a get served by
\* the fallback map (so every get made with the flag off, as after an error
\* notification) returns a value of the watched key only if some set of that
\* key was made with the flag off: what was written to Redis with the flag
\* on never comes out of the fallback map.
C18_NoCrossBackendLeak ==
    /\ (Done("get") /\ call.absent0) => call.res = Null
    /\ (/\ Done("get") /\ call.conn /\ ~call.perr /\ ~call.flipped
        /\ ~call.foreign
        /\ prev.op = "set" /\ prev.key = call.key /\ prev.wrote = "redis"
        /\ now < prev.exp)
           => (call.res = prev.val /\ call.src = "redis")
    /\ (Done("get") /\ call.key \in OneKey /\ ~hist.downSet) =>
           /\ call.src # "memory"
           /\ ~call.conn => call.res = Null

\* with a value of the key live in Redis and no set ever made with the flag
\* off, a get made with the flag off has returned absent
C18_Witness ==
    /\ Done("get") /\ call.key \in OneKey /\ ~call.conn /\ call.res = Null
    /\ ~hist.downSet /\ hist.last # Null
    /\ RedisLive(call.key) /\ JSONparse(redisStore[call.key].val) = hist.last

\* C19: with the flag off, in every order of the calls of a batch of one set
\* and one get per key (no entry expiring meanwhile): once every call has
\* been made the fallback map holds exactly one entry per key, with the
\* value that the set of the key passed; a key whose set has been made keeps
\* that entry; and every get has returned absent or the value of its key.
C19_ConcurrentFallbackSets ==
    /\ batch.pending = {} =>
          /\ DOMAIN inMemoryCache = Keys
          /\ Cardinality(DOMAIN inMemoryCache) = Cardinality(Keys)
    /\ \A k \in DOMAIN batch.value :
          /\ <<"set", k>> \notin batch.pending =>
                k \in DOMAIN inMemoryCache /\ inMemoryCache[k].data = batch.value[k]
          /\ batch.got[k] \in {Pending, Null, batch.value[k]}

\* a batch is over: one get came before the set of its key and returned
\* absent, another came after and returned the value, and the sets stored
\* different values
C19_Witness ==
    /\ batch.value # <<>> /\ batch.pending = {}
    /\ \E k1, k2 \in Keys :
          /\ batch.got[k1] = Null
          /\ batch.got[k2] = batch.value[k2]
          /\ batch.value[k1] # batch.value[k2]
    /\ \A k \in Keys : inMemoryCache[k].data = batch.value[k]

\* the helper keys that deletePattern(p) is to remove
KeysOf(p) ==
    IF p = "hospitals:list:*" THEN ListKeys
    ELSE IF p = "search:*" THEN SearchKeys
    ELSE {}

\* C20: for the keys built by the key helpers, a deletePattern of
\* 'hospitals:list:*' that completes (no Redis call raising) removes from the
\* fallback map every key of hospitalList and leaves every other helper key
\* with its entry, and a deletePattern of 'search:*' removes every key of
\* searchResults and leaves every other helper key; with the flag on or off.
C20_HelperPatternsExact ==
    [][(call'.pattern \in HelperPatterns /\ DeletePatternCompletes) =>
          inMemoryCache' =
              Without(inMemoryCache,
                      DOMAIN inMemoryCache \cap KeysOf(call'.pattern))]_vars

\* the calls that one invocation of op may make to the Redis client
AllowedCalls(op) ==
    IF op = "get" THEN {<<>>, <<"get">>}
    ELSE IF op = "set" THEN {<<>>, <<"setEx">>}
    ELSE IF op = "delete" THEN {<<>>, <<"del">>}
    ELSE IF op = "deletePattern" THEN {<<>>, <<"keys">>, <<"keys", "del">>}
    ELSE IF op = "getOrSet" THEN {<<>>, <<"get">>, <<"setEx">>, <<"get", "setEx">>}
    ELSE {<<>>, <<"info">>}

\* C21: in one invocation get makes at most one Redis read, set at most one
\* Redis write, delete at most one Redis delete, deletePattern at most one
\* enumeration of the keys followed by at most one delete of them, whether
\* the calls succeed or raise; no call is made a second time.
C21_NoRetry == call.pcalls \in AllowedCalls(call.op)

\* a deletePattern has completed after its enumeration succeeded and its
\* one delete of the keys raised
C21_Witness ==
    /\ Done("deletePattern") /\ call.perr /\ call.pcalls = <<"keys", "del">>

\* the initial connection has failed, nothing was called since, and the
\* flag is off (no connect notification has come since the failure)
BootFailed ==
    /\ call.op = "initializeRedis" /\ call.pc = "done" /\ call.perr
    /\ ~isRedisConnected

\* C22: when the connect() of the construction fails, initializeRedis ends
\* without raising and with the flag off; a get or a set called then (with
\* no connect notification since) makes no call to the Redis client and is
\* served by the fallback map.
C22_BootFailureIsSwallowed ==
    /\ []((call.op = "initializeRedis" /\ call.pc = "done") => ~call.raised)
    /\ [][ConnectResume(FALSE) => (~isRedisConnected' /\ call'.pc = "done")]_vars
    /\ [][(BootFailed /\ GetStart(call'.key)) =>
             /\ call'.pc = "done" /\ call'.pcalls = <<>>
             /\ call'.src \in {"memory", "none"}]_vars
    /\ [][(BootFailed /\ SetStart(call'.key, call'.data, call'.ttl)) =>
             /\ call'.pc = "done" /\ call'.pcalls = <<>>
             /\ call'.wrote = "memory"
             /\ call'.key \in DOMAIN inMemoryCache'
             /\ inMemoryCache'[call'.key].data = call'.data]_vars

\* after the failed construction a set stored its value in the fallback map
\* and the get after it returned that value from the map
C22_Witness ==
    /\ hist.bootFailed
    /\ Done("get") /\ ~call.conn /\ call.src = "memory" /\ call.pcalls = <<>>
    /\ prev.op = "set" /\ prev.wrote = "memory" /\ call.res = prev.val
    /\ redisStore = <<>> /\ ~isRedisConnected

\* a step of delete
DeleteStep ==
    /\ call'.op = "delete"
    /\ \/ DeleteStart(call'.key)
       \/ \E ok \in BOOLEAN : DeleteResume(ok)

\* the step changes no backend, or it ends the delete and removes its key,
\* and nothing else, from the fallback map and, when the flag was on, from
\* the Redis store
RemovesOwnKey ==
    \/ inMemoryCache' = inMemoryCache /\ redisStore' = redisStore
    \/ /\ call'.pc = "done"
       /\ inMemoryCache' = Without(inMemoryCache, {call'.key})
       /\ redisStore' =
              IF call'.conn THEN Without(redisStore, {call'.key}) ELSE redisStore

\* a step of a delete of k that follows a completed delete of k, with the
\* flag the same since the first began and no Redis call raising in either
SecondDeleteStep ==
    /\ prev'.op = "delete" /\ prev'.key = call'.key
    /\ ~call'.perr /\ ~call'.flipped
    /\ DeleteStep

\* C23: delete never raises; every step of a delete(k) changes nothing or
\* removes k alone from the backends, so that a delete of an absent key
\* changes nothing and no delete changes another key; and a second
\* delete(k) in the same connection state leaves both backends as the first
\* left them.
C23_DeleteIdempotent ==
    /\ [](Done("delete") => ~call.raised)
    /\ [][DeleteStep => RemovesOwnKey]_vars
    /\ [][SecondDeleteStep =>
             (inMemoryCache' = inMemoryCache /\ redisStore' = redisStore)]_vars

\* a second delete of a key has completed on the Redis path while the other
\* keys keep their entries in both backends
C23_Witness ==
    /\ Done("delete") /\ call.conn /\ ~call.perr /\ ~call.flipped
    /\ prev.op = "delete" /\ prev.key = call.key
    /\ DOMAIN inMemoryCache # {} /\ DOMAIN redisStore # {}

\* C24: in one getOrSet the producer is invoked at most once, whether the
\* read of the caches hits, misses or fails and whether the producer returns
\* or throws.
C24_ProducerAtMostOnce ==
    call.op = "getOrSet" => Len(call.fetches) <= 1

\* a step of getOrSet that reads the caches, or in which the producer
\* returns null or no value
NoValueStep ==
    /\ call'.op = "getOrSet"
    /\ \/ GetOrSetStart(call'.key, call'.ttl)
       \/ \E ok \in BOOLEAN : GetOrSetGetResume(ok)
       \/ GetOrSetFetchResume(Null)
       \/ GetOrSetFetchResume(Undefined)

\* the step leaves the Redis store as it is, and the fallback map too but
\* for an expired entry of the key that the read removes (line 76)
KeepsEntries ==
    /\ redisStore' = redisStore
    /\ \/ inMemoryCache' = inMemoryCache
       \/ /\ call'.purged /\ ~MemLive(call'.key)
          /\ inMemoryCache' = Without(inMemoryCache, {call'.key})

ToDigit(v) == SubSeq(Digits, v + 1, v + 1)

\* an item of the table as it is sent and cached: its id and its version
Item(i, v) == i \o ToDigit(v)

InTable(t, i) == t[i] >= 1

RECURSIVE Items(_, _, _)
\* result.Items of a scan of table t, filtered by keep, from position n on
Items(t, keep, n) ==
    IF n > Len(ScanOrder) THEN ""
    ELSE (IF InTable(t, ScanOrder[n]) /\ ScanOrder[n] \in keep
          THEN Item(ScanOrder[n], t[ScanOrder[n]]) ELSE "")
         \o Items(t, keep, n + 1)

\* the producers of the three read routes, on table t
Produce(op, arg, t) ==
    CASE op = "GET /hospitals/:id" ->
            IF InTable(t, arg) THEN Str(Item(arg, t[arg])) ELSE Null
      [] op = "GET /hospitals" -> Str(Items(t, HospitalIds, 1))
      [] op = "GET /hospitals/search/:query" ->
            Str(Items(t, {i \in HospitalIds :
                             includes(toLowerCase(NameOf[i]), arg)}, 1))

ReadRoutes ==
    {<<"GET /hospitals/:id", i, hospital(i), HOSPITAL_DETAILS>> : i \in HospitalIds}
        \cup {<<"GET /hospitals", NoFilters, hospitalList(NoFilters), HOSPITAL_LIST>>}
        \cup {<<"GET /hospitals/search/:query", toLowerCase(q),
                searchResults(toLowerCase(q)), SEARCH_RESULTS>> : q \in SearchTexts}

InFlight(q) == q.pc # "done"

\* the handler that begins: the flag it finds, the handler beside it, and
\* the write route that has just responded
Arrive(other, op, arg) ==
    [NoRequest EXCEPT !.op = op, !.arg = arg, !.overlap = InFlight(other),
                      !.afterPut = /\ op \in {route[1] : route \in ReadRoutes}
                                   /\ ~InFlight(other)
                                   /\ other.op = "PUT /hospitals/:id"
                                   /\ other.status = 200]

\* the handler beside one that begins
Beside(q) == [q EXCEPT !.overlap = @ \/ InFlight(q)]

\* res.status(status).json(body): what is kept of the handler is its
\* route, its response, and what happened around it
Respond(q, status, body) ==
    [NoRequest EXCEPT !.op = q.op, !.arg = q.arg, !.status = status, !.body = body,
                      !.flipped = q.flipped, !.perr = q.perr, !.overlap = q.overlap,
                      !.afterPut = q.afterPut]

\* the end of a read route: 404 of lines 439-441, or 200
Answer(q, data) ==
    IF data = Null /\ q.op = "GET /hospitals/:id" THEN Respond(q, 404, Null)
    ELSE Respond(q, 200, data)

\* get has returned data to getOrSet (lines 159-165): a hit is the answer,
\* a miss invokes the producer
AfterCacheRead(q, data) ==
    IF data # Null THEN Answer(q, data) ELSE [q EXCEPT !.pc = "fetch_wait"]

\* a read route begins: lines 366-371, 416-421, 595-598 and get down to its
\* first await
ReadStart(op, arg, key, ttl) ==
    /\ ~InFlight(requests.r)
    /\ LET q == [Arrive(requests.w, op, arg) EXCEPT !.key = key, !.ttl = ttl]
           m == MemGet(inMemoryCache, key, now)
       IN  IF isRedisConnected
           THEN /\ requests' = [r |-> [q EXCEPT !.pc = "get_wait"],
                                w |-> Beside(requests.w)]
                /\ UNCHANGED inMemoryCache
           ELSE /\ requests' = [r |-> AfterCacheRead(q, m.res), w |-> Beside(requests.w)]
                /\ inMemoryCache' = m.mem
    /\ UNCHANGED <<isRedisConnected, redisStore, now, call, prev, hist, batch,
                   table, polling>>

\* redisClient.get answers (lines 62-81)
ReadGetResume(ok) ==
    /\ requests.r.pc = "get_wait"
    /\ LET q == requests.r
           value == RedisGet(redisStore, q.key, now)
           parsed == JSONparse(value)
           m == MemGet(inMemoryCache, q.key, now)
       IN  IF ~ok \/ (value # Nil /\ parsed = Thrown)
           THEN /\ requests' = [requests EXCEPT !.r = AfterCacheRead(q, Null)]
                /\ UNCHANGED inMemoryCache
           ELSE IF value # Nil
           THEN /\ requests' = [requests EXCEPT !.r = AfterCacheRead(q, parsed)]
                /\ UNCHANGED inMemoryCache
           ELSE /\ requests' = [requests EXCEPT !.r = AfterCacheRead(q, m.res)]
                /\ inMemoryCache' = m.mem
    /\ UNCHANGED <<isRedisConnected, redisStore, now, call, prev, hist, batch,
                   table, polling>>

\* DynamoDB reads the table for the producer (lines 384, 432, 608), or fails
OriginRead(ok) ==
    /\ requests.r.pc \in {"fetch_wait", "refetch_wait"}
    /\ requests' = [requests EXCEPT
          !.r.data = IF ok THEN Produce(requests.r.op, requests.r.arg, table)
                     ELSE Thrown,
          !.r.pc = IF requests.r.pc = "fetch_wait" THEN "fetch_answer"
                   ELSE "refetch_answer"]
    /\ UNCHANGED <<isRedisConnected, inMemoryCache, redisStore, now, call, prev,
                   hist, batch, table, polling>>

\* the producer answers getOrSet (lines 165-176) and set runs to its await
FetchResume ==
    /\ requests.r.pc = "fetch_answer"
    /\ LET q == requests.r
       IN  IF q.data = Thrown
           THEN /\ requests' = [requests EXCEPT !.r.pc = "refetch_wait"]
                /\ UNCHANGED inMemoryCache
           ELSE IF ~Cacheable(q.data)
           THEN /\ requests' = [requests EXCEPT !.r = Answer(q, q.data)]
                /\ UNCHANGED inMemoryCache
           ELSE IF isRedisConnected
           THEN /\ requests' = [requests EXCEPT !.r.pc = "set_wait"]
                /\ UNCHANGED inMemoryCache
           ELSE /\ requests' = [requests EXCEPT !.r = Answer(q, q.data)]
                /\ inMemoryCache' = MemSet(inMemoryCache, q.key, q.data, q.ttl, now)
    /\ UNCHANGED <<isRedisConnected, redisStore, now, call, prev, hist, batch,
                   table, polling>>

\* redisClient.setEx answers set (lines 95-109), getOrSet returns the data
ReadSetResume(ok) ==
    /\ requests.r.pc = "set_wait"
    /\ LET q == requests.r
       IN  /\ requests' = [requests EXCEPT !.r = Answer(q, q.data)]
           /\ redisStore' = IF ok
                            THEN RedisSetEx(redisStore, q.key, q.ttl,
                                            JSONstringify(q.data), now)
                            ELSE redisStore
    /\ UNCHANGED <<isRedisConnected, inMemoryCache, now, call, prev, hist, batch,
                   table, polling>>

\* the producer called by the catch of getOrSet answers (lines 172-176): its
\* value is returned uncached, its failure is the 500 of the route
RefetchResume ==
    /\ requests.r.pc = "refetch_answer"
    /\ requests' = [requests EXCEPT
          !.r = IF requests.r.data = Thrown THEN Respond(requests.r, 500, Null)
                ELSE Answer(requests.r, requests.r.data)]
    /\ UNCHANGED <<isRedisConnected, inMemoryCache, redisStore, now, call, prev,
                   hist, batch, table, polling>>

\* the cache calls of a write route, in the order of lines 485-494, 579-581
SetCache(key, data) == [op |-> "set", arg |-> key, data |-> data]

DeleteCache(key) == [op |-> "delete", arg |-> key, data |-> Null]

DeletePatternCache(pattern) == [op |-> "deletePattern", arg |-> pattern, data |-> Null]

Invalidation == <<DeletePatternCache("hospitals:list:*"), DeletePatternCache("search:*")>>

\* the fallback part of one cache call (lines 100-105, 120, 141-145)
OnFallback(c, mem, t) ==
    CASE c.op = "set" -> MemSet(mem, c.arg, c.data, HOSPITAL_DETAILS, t)
      [] c.op = "delete" -> Without(mem, {c.arg})
      [] c.op = "deletePattern" -> MemDeletePattern(mem, c.arg)

\* the first call that a cache call makes to the Redis client
FirstWait(c) ==
    CASE c.op = "set" -> "setEx_wait"
      [] c.op = "delete" -> "del_wait"
      [] c.op = "deletePattern" -> "keys_wait"

RECURSIVE Proceed(_, _, _, _)
\* the cache calls todo are made in turn, up to the first one that awaits
\* the Redis client: with the flag off each of them runs to its end
Proceed(todo, mem, conn, t) ==
    IF todo = <<>> \/ conn THEN [todo |-> todo, mem |-> mem]
    ELSE Proceed(Tail(todo), OnFallback(Head(todo), mem, t), conn, t)

\* the write route after a step that left the calls todo to be made: it
\* awaits the Redis client, or it responds (lines 501, 585)
GoOn(q, todo) ==
    IF todo # <<>> THEN [q EXCEPT !.pc = FirstWait(Head(todo)), !.todo = todo]
    ELSE Respond(q, IF q.op = "POST /hospitals" THEN 201 ELSE 200, q.data)

\* POST /hospitals begins (lines 457-482); valid: the body has the required
\* fields; the id is one that uuidv4 has not given before
PostStart(valid, i) ==
    /\ ~InFlight(requests.w)
    /\ table[i] = 0
    /\ LET q == Arrive(requests.r, "POST /hospitals", i)
       IN  requests' = [r |-> Beside(requests.r),
                        w |-> IF valid THEN [q EXCEPT !.pc = "put_wait"]
                              ELSE Respond(q, 400, Null)]
    /\ UNCHANGED <<isRedisConnected, inMemoryCache, redisStore, now, call, prev,
                   hist, batch, table, polling>>

\* dynamoDB.put answers (line 482), the cache calls begin (lines 485-494)
PutResume(ok) ==
    /\ requests.w.pc = "put_wait"
    /\ LET q == [requests.w EXCEPT !.data = Str(Item(requests.w.arg, 1))]
           go == Proceed(<<SetCache(hospital(q.arg), q.data)>> \o Invalidation,
                         inMemoryCache, isRedisConnected, now)
       IN  IF ok
           THEN /\ table' = [table EXCEPT ![q.arg] = 1]
                /\ inMemoryCache' = go.mem
                /\ requests' = [requests EXCEPT !.w = GoOn(q, go.todo)]
           ELSE /\ requests' = [requests EXCEPT !.w = Respond(requests.w, 500, Null)]
                /\ UNCHANGED <<table, inMemoryCache>>
    /\ UNCHANGED <<isRedisConnected, redisStore, now, call, prev, hist, batch, polling>>

\* PUT /hospitals/:id begins (lines 510-522)
UpdateStart(i) ==
    /\ ~InFlight(requests.w)
    /\ table[i] < MaxVersion
    /\ requests' = [r |-> Beside(requests.r),
                    w |-> [Arrive(requests.r, "PUT /hospitals/:id", i)
                              EXCEPT !.pc = "exists_wait"]]
    /\ UNCHANGED <<isRedisConnected, inMemoryCache, redisStore, now, call, prev,
                   hist, batch, table, polling>>

\* dynamoDB.get answers (lines 522-526)
ExistsResume(ok) ==
    /\ requests.w.pc = "exists_wait"
    /\ requests' = [requests EXCEPT
          !.w = IF ~ok THEN Respond(requests.w, 500, Null)
                ELSE IF ~InTable(table, requests.w.arg) THEN Respond(requests.w, 404, Null)
                ELSE [requests.w EXCEPT !.pc = "update_wait"]]
    /\ UNCHANGED <<isRedisConnected, inMemoryCache, redisStore, now, call, prev,
                   hist, batch, table, polling>>

\* dynamoDB.update answers (lines 550-552): no cache call follows
UpdateResume(ok) ==
    /\ requests.w.pc = "update_wait"
    /\ LET i == requests.w.arg
       IN  IF ok
           THEN /\ table' = [table EXCEPT ![i] = @ + 1]
                /\ requests' = [requests EXCEPT
                      !.w = Respond(requests.w, 200, Str(Item(i, table[i] + 1)))]
           ELSE /\ requests' = [requests EXCEPT !.w = Respond(requests.w, 500, Null)]
                /\ UNCHANGED table
    /\ UNCHANGED <<isRedisConnected, inMemoryCache, redisStore, now, call, prev,
                   hist, batch, polling>>

\* DELETE /hospitals/:id begins (lines 561-572)
RemoveStart(i) ==
    /\ ~InFlight(requests.w)
    /\ requests' = [r |-> Beside(requests.r),
                    w |-> [Arrive(requests.r, "DELETE /hospitals/:id", i)
                              EXCEPT !.pc = "delete_wait"]]
    /\ UNCHANGED <<isRedisConnected, inMemoryCache, redisStore, now, call, prev,
                   hist, batch, table, polling>>

\* dynamoDB.delete answers (lines 572-581): 404 without Attributes, else the
\* cache calls begin
RemoveResume(ok) ==
    /\ requests.w.pc = "delete_wait"
    /\ LET q == requests.w
           go == Proceed(<<DeleteCache(hospital(q.arg))>> \o Invalidation,
                         inMemoryCache, isRedisConnected, now)
       IN  IF ~ok
           THEN /\ requests' = [requests EXCEPT !.w = Respond(q, 500, Null)]
                /\ UNCHANGED <<table, inMemoryCache>>
           ELSE IF ~InTable(table, q.arg)
           THEN /\ requests' = [requests EXCEPT !.w = Respond(q, 404, Null)]
                /\ UNCHANGED <<table, inMemoryCache>>
           ELSE /\ table' = [table EXCEPT ![q.arg] = Deleted]
                /\ inMemoryCache' = go.mem
                /\ requests' = [requests EXCEPT !.w = GoOn(q, go.todo)]
    /\ UNCHANGED <<isRedisConnected, redisStore, now, call, prev, hist, batch, polling>>

\* the Redis client answers the cache call that a write route awaits:
\* setEx of set (lines 95-109), del of delete (lines 117-124), keys and del
\* of deletePattern (lines 132-148); a raised error ends the cache call
CacheResume(ok) ==
    /\ requests.w.pc \in {"setEx_wait", "del_wait", "keys_wait", "delMany_wait"}
    /\ LET q == [requests.w EXCEPT !.perr = @ \/ ~ok]
           c == Head(q.todo)
           found == RedisKeys(redisStore, c.arg, now)
           more == ok /\ q.pc = "keys_wait" /\ found # {}
           store == CASE ~ok -> redisStore
                      [] ok /\ q.pc = "setEx_wait" ->
                            RedisSetEx(redisStore, c.arg, HOSPITAL_DETAILS,
                                       JSONstringify(c.data), now)
                      [] ok /\ q.pc = "del_wait" -> RedisDel(redisStore, {c.arg})
                      [] ok /\ q.pc = "keys_wait" -> redisStore
                      [] ok /\ q.pc = "delMany_wait" -> RedisDel(redisStore, q.keys)
           mem == IF ok /\ ~more /\ c.op # "set"
                  THEN OnFallback(c, inMemoryCache, now) ELSE inMemoryCache
           go == Proceed(Tail(q.todo), mem, isRedisConnected, now)
       IN  /\ redisStore' = store
           /\ IF more
              THEN /\ requests' = [requests EXCEPT
                         !.w = [q EXCEPT !.pc = "delMany_wait", !.keys = found]]
                   /\ UNCHANGED inMemoryCache
              ELSE /\ requests' = [requests EXCEPT
                         !.w = GoOn([q EXCEPT !.keys = {}], go.todo)]
                   /\ inMemoryCache' = go.mem
    /\ UNCHANGED <<isRedisConnected, now, call, prev, hist, batch, table, polling>>

\* the 'connect' and 'error' events of the client (lines 39-47) while route
\* handlers are in flight
Flip(q, to) == [q EXCEPT !.flipped = @ \/ (InFlight(q) /\ isRedisConnected # to)]

ConnectEvent ==
    /\ isRedisConnected' = TRUE
    /\ requests' = [requests EXCEPT !.w = Flip(requests.w, TRUE)]
    /\ UNCHANGED <<inMemoryCache, redisStore, now, call, prev, hist, batch,
                   table, polling>>

ErrorEvent ==
    /\ isRedisConnected' = FALSE
    /\ requests' = [requests EXCEPT !.w = Flip(requests.w, FALSE)]
    /\ UNCHANGED <<inMemoryCache, redisStore, now, call, prev, hist, batch,
                   table, polling>>

\* a request arrives at a read route, at POST /hospitals, at DELETE
Arrivals ==
    \/ \E route \in ReadRoutes : ReadStart(route[1], route[2], route[3], route[4])
    \/ \E valid \in BOOLEAN, i \in HospitalIds : PostStart(valid, i)
    \/ \E i \in HospitalIds : RemoveStart(i)

\* the handlers resume; Origin: the outcomes of the calls to DynamoDB
\* (TRUE: the call resolves); the calls to Redis resolve
ReadSteps(Origin) ==
    \/ ReadGetResume(TRUE)
    \/ \E ok \in Origin : OriginRead(ok)
    \/ FetchResume
    \/ ReadSetResume(TRUE)

WriteSteps(Origin) ==
    \/ \E ok \in Origin : PutResume(ok)
    \/ \E ok \in Origin : RemoveResume(ok)
    \/ CacheResume(TRUE)

Updates(Origin) ==
    \/ \E i \in HospitalIds : UpdateStart(i)
    \/ \E ok \in Origin : ExistsResume(ok)
    \/ \E ok \in Origin : UpdateResume(ok)

\* the state after construction and the 'connect' event of the client
InitSteady ==
    /\ isRedisConnected = TRUE
    /\ inMemoryCache = <<>>
    /\ redisStore = <<>>
    /\ now = 0
    /\ call = NoCall
    /\ prev = NoPrev
    /\ hist = NoHist
    /\ batch = NoBatch
    /\ table = NoTable
    /\ requests = NoRequests
    /\ queue = NoQueue
    /\ worker = NoWorker

\* the read routes beside POST and DELETE, the client connected for good
\* and every call resolving
NextSteady == Arrivals \/ ReadSteps({TRUE}) \/ WriteSteps({TRUE})

SpecSteady == InitSteady /\ [][NextSteady]_vars

\* all the routes, the client connected for good, DynamoDB failing at will
NextUpdate ==
    \/ Arrivals
    \/ ReadSteps(BOOLEAN)
    \/ RefetchResume
    \/ WriteSteps(BOOLEAN)
    \/ Updates(BOOLEAN)

SpecUpdate == InitSteady /\ [][NextUpdate]_vars

\* a request that arrives while no other handler is in flight
ReadAlone(op, arg, key, ttl) == ~InFlight(requests.w) /\ ReadStart(op, arg, key, ttl)

PostAlone(valid, i) == ~InFlight(requests.r) /\ PostStart(valid, i)

RemoveAlone(i) == ~InFlight(requests.r) /\ RemoveStart(i)

\* one handler at a time, the notifications of the client at any time,
\* every call resolving
NextAlone ==
    \/ \E route \in ReadRoutes : ReadAlone(route[1], route[2], route[3], route[4])
    \/ \E valid \in BOOLEAN, i \in HospitalIds : PostAlone(valid, i)
    \/ \E i \in HospitalIds : RemoveAlone(i)
    \/ ReadSteps({TRUE})
    \/ WriteSteps({TRUE})
    \/ ConnectEvent
    \/ ErrorEvent

SpecAlone == Init /\ [][NextAlone]_vars

(***************************************************************************)
(* What the cache holds against what the table holds.                      *)
(***************************************************************************)
\* the data cached under key, in the Redis store and in the fallback map
Held(key) ==
    {JSONparse(redisStore[k].val) : k \in {x \in DOMAIN redisStore :
                                             x = key /\ redisStore[x].exp > now}}
        \cup {inMemoryCache[k].data : k \in {x \in DOMAIN inMemoryCache :
                                               x = key /\ inMemoryCache[x].expiry > now}}

\* the hospitals that a response or a cache entry shows
IdsOf(d) ==
    IF d = Null THEN {} ELSE {SubSeq(d.s, 2 * n - 1, 2 * n - 1) : n \in 1..(Len(d.s) \div 2)}

\* no handler is in flight
Quiet == ~InFlight(requests.r) /\ ~InFlight(requests.w)

\* the write handler has responded 201 (POST) or 200 (DELETE)
Written ==
    /\ requests.w.op \in {"POST /hospitals", "DELETE /hospitals/:id"}
    /\ requests.w.status \in {200, 201}

\* the read handler responds in this step
ReadResponds == requests.r' # requests.r /\ ~InFlight(requests.r')

\* the read handler that responds began after PUT /hospitals/:id had
\* responded 200, and no write handler has begun since
FollowsUpdate ==
    /\ requests.r'.afterPut /\ ~requests.r'.overlap
    /\ requests.r'.op = "GET /hospitals/:id" => requests.r'.arg = requests.w.arg

\* C26: a GET /hospitals/:id, GET /hospitals or GET /hospitals/search/:query
\* that follows a PUT /hospitals/:id which updated the table and responded
\* 200 responds with what the table holds after the update (or with the 500
\* of a failed read of the table), not with a cache entry filled before it
C26_UpdateIsServed ==
    [][(ReadResponds /\ FollowsUpdate) =>
          \/ requests.r'.status = 500
          \/ /\ requests.r'.status = 200
             /\ requests.r'.body =
                    Produce(requests.r'.op, requests.r'.arg, table)]_vars

\* C27: once a POST or DELETE handler and the handlers that ran beside it
\* have all completed, every cache entry under 'hospital:<id>',
\* 'hospitals:list:*' and 'search:*' shows the hospitals that the table
\* holds now: no deleted hospital, and every created one (here with the
\* client connected throughout and every call to Redis and DynamoDB
\* resolving)
C27_NoStaleEntryAfterWrite ==
    (Quiet /\ Written) =>
        \A route \in ReadRoutes : \A d \in Held(route[3]) :
            IdsOf(d) = IdsOf(Produce(route[1], route[2], table))

\* the write handler responds in this step
WriteResponds == requests.w' # requests.w /\ ~InFlight(requests.w')

\* the entry of key in the two backends
EntryOf(key) ==
    [redis |-> RedisGet(redisStore, key, now),
     memory |-> IF key \in DOMAIN inMemoryCache THEN inMemoryCache[key].data ELSE Undefined]

NoEntry == [redis |-> Nil, memory |-> Undefined]

\* the keys of the list and search routes
ListAndSearchKeys == {route[3] : route \in {x \in ReadRoutes : x[1] # "GET /hospitals/:id"}}

\* the backend that the flag selects holds data under key
ActiveHolds(key, data) ==
    IF isRedisConnected THEN EntryOf(key).redis = JSONstringify(data)
    ELSE EntryOf(key).memory = data

NoListOrSearchEntry == \A k \in ListAndSearchKeys : EntryOf(k) = NoEntry

Cycles == 1..MaxCycles

Polling(cy) == cy.pc # "idle"

\* a cycle that no call of processMessages is using
FreeCycle(w) == CHOOSE c \in Cycles : ~Polling(w.cycles[c]) /\
                    \A d \in Cycles : ~Polling(w.cycles[d]) => c <= d

\* processMessages (lines 261-278) down to the await of
\* processHospitalQueue, which runs down to its await of sqs.receiveMessage
\* (part_001:123-132)
processMessages(w) ==
    IF ~w.isRunning THEN w
    ELSE [w EXCEPT !.cycles[FreeCycle(w)] = [NoCycle EXCEPT !.pc = "receive_wait"]]

\* SQSWorker.start (lines 224-244)
Start ==
    /\ \E c \in Cycles : ~Polling(worker.cycles[c])
    /\ worker.isRunning \/ worker.made < MaxTimers
    /\ worker' = IF worker.isRunning THEN worker
                 ELSE processMessages(
                        [worker EXCEPT !.isRunning = TRUE,
                                       !.made = @ + 1,
                                       !.processingInterval = worker.made + 1,
                                       !.timers = @ \cup {worker.made + 1}])
    /\ UNCHANGED <<isRedisConnected, inMemoryCache, redisStore, now, call, prev,
                   hist, batch, service, queue>>

\* SQSWorker.stop (lines 246-259)
Stop ==
    /\ worker' = IF ~worker.isRunning THEN worker
                 ELSE [worker EXCEPT !.isRunning = FALSE,
                                     !.processingInterval = 0,
                                     !.timers = @ \ {worker.processingInterval}]
    /\ UNCHANGED <<isRedisConnected, inMemoryCache, redisStore, now, call, prev,
                   hist, batch, service, queue>>

\* the interval of timer t has elapsed: the callback of lines 234-240
TimerFires(t) ==
    /\ t \in worker.timers
    /\ \E c \in Cycles : ~Polling(worker.cycles[c])
    /\ worker' = processMessages(worker)
    /\ UNCHANGED <<isRedisConnected, inMemoryCache, redisStore, now, call, prev,
                   hist, batch, service, queue>>

Logged(cy, outcome) ==
    [cy EXCEPT !.log = Append(@, [message |-> cy.batch[cy.at], outcome |-> outcome])]

\* the catch of processHospitalMessage without its body: the failure
\* leaves processHospitalQueue, whose catch throws it again
AfterFailureRaises(cy, outcome) ==
    [Logged(cy, outcome) EXCEPT !.pc = "idle", !.raised = TRUE]

RECURSIVE NextMessage(_)
\* the loop of part_001:134-138 goes on to the next message; JSON.parse
\* (line 152) throws at once for a body that is not JSON
NextMessage(cy) ==
    IF cy.at >= Len(cy.batch) THEN [cy EXCEPT !.pc = "idle"]
    ELSE LET next == [cy EXCEPT !.at = @ + 1, !.updated = FALSE]
         IN  IF BodyOf[next.batch[next.at]].json
             THEN [next EXCEPT !.pc = "validate_wait"]
             ELSE NextMessage(Logged(next, "parse"))

\* the catch of processHospitalMessage (part_001:176-182): the failure is
\* logged and the call returns
AfterFailure(cy, outcome) == NextMessage(Logged(cy, outcome))

\* the messages that one receiveMessage may return, in their order
Batches(visible) ==
    {b \in UNION {[1..n -> visible] : n \in 0..Cardinality(visible)} :
        \A i, j \in DOMAIN b : i # j => b[i] # b[j]}

\* sqs.receiveMessage answers (part_001:132-145)
ReceiveResume(c, ok, received) ==
    /\ worker.cycles[c].pc = "receive_wait"
    /\ received \in Batches(queue.visible)
    /\ IF ok
       THEN /\ worker' = [worker EXCEPT
                  !.cycles[c] = IF received = <<>> THEN NoCycle
                                ELSE NextMessage([NoCycle EXCEPT !.batch = received])]
            /\ queue' = [queue EXCEPT
                  !.visible = @ \ {received[i] : i \in DOMAIN received},
                  !.taken = @ \cup {received[i] : i \in DOMAIN received}]
       ELSE /\ received = <<>>
            /\ worker' = [worker EXCEPT !.cycles[c] = [NoCycle EXCEPT !.raised = TRUE]]
            /\ UNCHANGED queue
    /\ UNCHANGED <<isRedisConnected, inMemoryCache, redisStore, now, call, prev,
                   hist, batch, service>>

\* the timeout of validateHospitalData has elapsed (part_001:188-198), then
\* updateHospitalStatus (okStatus: it resolves) and the call of
\* sqs.deleteMessage (part_001:163-170)
ValidateResume(c, okStatus) ==
    /\ worker.cycles[c].pc = "validate_wait"
    /\ LET cy == worker.cycles[c]
           body == BodyOf[cy.batch[cy.at]]
       IN  worker' = [worker EXCEPT
              !.cycles[c] = IF ~body.name \/ ~body.address THEN AfterFailure(cy, "invalid")
                            ELSE IF ~okStatus THEN AfterFailure(cy, "status")
                            ELSE [cy EXCEPT !.pc = "delete_wait", !.updated = TRUE]]
    /\ UNCHANGED <<isRedisConnected, inMemoryCache, redisStore, now, call, prev,
                   hist, batch, service, queue>>

\* sqs.deleteMessage answers (part_001:167-182)
DeleteMessageResume(c, ok) ==
    /\ worker.cycles[c].pc = "delete_wait"
    /\ LET cy == worker.cycles[c]
           message == cy.batch[cy.at]
       IN  IF ok
           THEN /\ queue' = [visible |-> queue.visible \ {message},
                             taken |-> queue.taken \ {message},
                             deleted |-> queue.deleted \cup {message}]
                /\ worker' = [worker EXCEPT
                      !.cycles[c] = NextMessage(Logged(cy, "deleted"))]
           ELSE /\ worker' = [worker EXCEPT !.cycles[c] = AfterFailure(cy, "delete")]
                /\ UNCHANGED queue
    /\ UNCHANGED <<isRedisConnected, inMemoryCache, redisStore, now, call, prev,
                   hist, batch, service>>

\* the visibility timeout of a received message runs out (part_001:129):
\* the queue delivers it again
Redeliver(message) ==
    /\ message \in queue.taken
    /\ queue' = [queue EXCEPT !.taken = @ \ {message}, !.visible = @ \cup {message}]
    /\ UNCHANGED <<isRedisConnected, inMemoryCache, redisStore, now, call, prev,
                   hist, batch, service, worker>>

NextWorker ==
    \/ Start
    \/ Stop
    \/ \E t \in 1..MaxTimers : TimerFires(t)
    \/ \E c \in Cycles, ok \in BOOLEAN, received \in Batches(Messages) :
          ReceiveResume(c, ok, received)
    \/ \E c \in Cycles, okStatus \in BOOLEAN : ValidateResume(c, okStatus)
    \/ \E c \in Cycles, ok \in BOOLEAN : DeleteMessageResume(c, ok)
    \/ \E message \in Messages : Redeliver(message)

SpecWorker == Init /\ [][NextWorker]_vars

\* the message that cycle c is processing
Current(c) == worker.cycles[c].batch[worker.cycles[c].at]

\* the body parses and validateHospitalData accepts its hospitalData
Valid(message) ==
    BodyOf[message].json /\ BodyOf[message].name /\ BodyOf[message].address

\* cycle c has gone through its whole batch
Through(c) ==
    /\ ~Polling(worker.cycles[c]) /\ worker.cycles[c].batch # <<>>

\* C29: a message is deleted from the queue only by the deleteMessage that
\* follows its successful validation and status update; a message whose
\* parsing, validation or status update fails is not deleted, the failure
\* is not raised to processHospitalQueue, and the rest of the batch is
\* processed, in the order of the batch
C29_DeleteOnlyAfterSuccess ==
    /\ [](\A c \in Cycles : worker.cycles[c].pc = "delete_wait" =>
              Valid(Current(c)) /\ worker.cycles[c].updated)
    /\ [](\A message \in Messages : ~Valid(message) => message \notin queue.deleted)
    /\ [](\A c \in Cycles :
              /\ Len(worker.cycles[c].log) <= Len(worker.cycles[c].batch)
              /\ \A i \in DOMAIN worker.cycles[c].log :
                    worker.cycles[c].log[i].message = worker.cycles[c].batch[i]
              /\ worker.cycles[c].raised => worker.cycles[c].batch = <<>>
              /\ Through(c) => Len(worker.cycles[c].log) = Len(worker.cycles[c].batch))
    /\ [][queue'.deleted # queue.deleted =>
            \E c \in Cycles : /\ worker.cycles[c].pc = "delete_wait"
                              /\ queue'.deleted = queue.deleted \cup {Current(c)}]_vars
    /\ [][\A c \in Cycles :
            (worker.cycles[c].pc = "validate_wait" /\ worker.cycles'[c] # worker.cycles[c])
                => queue' = queue]_vars

\* a cycle went through a batch of three messages whose first one failed at
\* its status update: that message is still in the queue, and the two
\* others were processed after it
C29_Witness ==
    \E c \in Cycles :
        /\ Through(c) /\ ~worker.cycles[c].raised
        /\ Len(worker.cycles[c].batch) = 3
        /\ worker.cycles[c].log[1].outcome = "status"
        /\ worker.cycles[c].log[1].message \notin queue.deleted
        /\ {worker.cycles[c].log[i].outcome : i \in 2..3} = {"parse", "invalid"}

\* the processing cycles in flight
InFlightCycles == {c \in Cycles : Polling(worker.cycles[c])}

\* C30: over every sequence of start() and stop(), at most one interval
\* timer exists and start while running creates none; when the worker is
\* not running there is no timer; a cycle begins to poll the queue only
\* while isRunning is true; and at most one processing cycle is in flight
C30_OneTimerOneCycle ==
    /\ [](Cardinality(worker.timers) <= 1)
    /\ [][worker.isRunning => worker'.timers \subseteq worker.timers]_vars
    /\ [](~worker.isRunning => worker.timers = {} /\ worker.processingInterval = 0)
    /\ [][\A c \in Cycles :
            (worker.cycles[c].pc # "receive_wait" /\ worker.cycles'[c].pc = "receive_wait")
                => worker'.isRunning]_vars
    /\ [](Cardinality(InFlightCycles) <= 1)

=============================================================================
